---- MODULE Spec2Model ----
(***************************************************************************)
(* Data-quality rule executor of data-profiler:                            *)
(*   src/database/quality.py     run_quality_tests and its check blocks    *)
(*   src/database/connectors.py  the count / statistics / sampler queries  *)
(*                               of the four connectors                    *)
(*                                                                         *)
(* The state machines share the variables; the first four are:             *)
(*   SpecCheck    one check block executed against a column whose contents *)
(*                are known, the queries evaluated with SQL semantics      *)
(*   SpecSampler  one violation sampler called with a limit                *)
(*   Spec         run_quality_tests over two columns, the connector        *)
(*                answers (value or exception) being inputs                *)
(*   SpecTckn     the TCKN predicate of each connector on an 11-digit      *)
(*                string                                                   *)
(* The later sections (SpecMeta, SpecConn, SpecFactory, SpecSession,       *)
(* SpecSql, SpecFormat, SpecPattern, SpecReconnect, SpecDateFormat,        *)
(* SpecDetails, SpecSizes, SpecTypes) introduce theirs where they start.   *)
(***************************************************************************)
EXTENDS Integers, Sequences, FiniteSets, TLC

VARIABLES run, chk, tck, meta, con, mem, fn

vars == <<run, chk, tck, meta, con, mem, fn>>

(***************************************************************************)
(* Bounds of the exploration.                                              *)
(***************************************************************************)
\* largest number of rows of the table under test
MaxRows == 3
\* largest value of the limit argument handed to a sampler; it stands for
\* the default limit=100 of the samplers, scaled to tables of MaxRows rows
MaxLimit == 2
\* the MSSQL catalog query sums the row count once per allocation unit of
\* every index of the table; at most this many units are explored
MaxAllocUnits == 2

Backends == {"postgres", "mssql", "mysql", "oracle"}

(***************************************************************************)
(* Python None / SQL NULL and present values.                              *)
(***************************************************************************)
None == [null |-> TRUE]
Some(x) == [null |-> FALSE, v |-> x]

Min2(a, b) == IF a <= b THEN a ELSE b

\* numbers and day numbers stored in numeric and date columns
NumVals == {1, 2, 3}
\* strings stored in text columns, one of each length 1..3
TextVals == {<<"a">>, <<"a", "b">>, <<"a", "b", "c">>}
\* values the user enters for the lower and upper bound of a check
ParamVals == {1, 2, 3}

(***************************************************************************)
(* Outcomes of a check as run_quality_tests stores them in *_pass.         *)
(***************************************************************************)
NoOutcome == [icon |-> "none", err |-> ""]
PASS_ICON == [icon |-> "pass", err |-> ""]
FAIL_ICON == [icon |-> "fail", err |-> ""]
\* f"{FAIL_ICON} ({str(e)})"
FailWithText(msg) == [icon |-> "fail", err |-> msg]
\* letter_pass = 'else'
ElseOutcome == [icon |-> "else", err |-> ""]

(***************************************************************************)
(* A connector call either returns a value or raises.                      *)
(***************************************************************************)
Ok(x) == [raise |-> FALSE, val |-> x, msg |-> ""]
Raise(m) == [raise |-> TRUE, val |-> None, msg |-> m]

(***************************************************************************)
(* Column categories of the type names the connectors report.              *)
(***************************************************************************)
NumericTypes == {"int", "bigint", "integer", "numeric", "decimal", "float", "double",
                 "double precision", "number"}
TextTypes == {"varchar", "character varying", "varchar2"}
DateTypes == {"date"}

\* type names get_columns returns on each backend (lower-cased by the caller)
ColumnTypes(backend) ==
  CASE backend = "postgres" -> {"integer", "numeric", "double precision", "character varying", "date"}
    [] backend = "mssql" -> {"int", "float", "varchar", "date"}
    [] backend = "mysql" -> {"int", "double", "varchar", "date"}
    [] backend = "oracle" -> {"number", "varchar2", "date"}

ValuesOf(data_type) == IF data_type \in TextTypes THEN TextVals ELSE NumVals

(***************************************************************************)
(* Check catalog: get_available_tests.                                     *)
(***************************************************************************)
CheckKinds == {"null_check", "distinct_check", "range_check", "length_check",
               "letter_check", "number_check", "allowed_values", "eng_numeric_format",
               "tr_numeric_format", "case_consistency", "future_date", "date_range",
               "no_special_chars", "email_format", "regex_pattern", "positive_value",
               "tckn_check", "date_check", "date_logic_check", "date_format_check"}

TextCatalogTypes == {"varchar", "char", "nvarchar", "nchar", "text", "varchar2", "character varying"}
DecimalCatalogTypes == {"decimal", "numeric", "float", "double", "real", "number", "double precision"}
IntCatalogTypes == {"int", "bigint", "smallint", "tinyint"}
DateCatalogTypes == {"date", "datetime", "timestamp", "timestamp(6)"}

\* the 'available_for' entry of a check in the registry: 'all' or a list of
\* type names
available_for(kind) ==
  CASE kind \in {"null_check", "distinct_check", "letter_check", "number_check"} ->
         [all |-> TRUE, types |-> {}]
    [] kind \in {"range_check", "positive_value"} ->
         [all |-> FALSE, types |-> IntCatalogTypes \cup DecimalCatalogTypes]
    [] kind \in {"eng_numeric_format", "tr_numeric_format"} ->
         [all |-> FALSE, types |-> DecimalCatalogTypes]
    [] kind = "future_date" -> [all |-> FALSE, types |-> DateCatalogTypes]
    [] kind \in {"date_range", "date_logic_check"} ->
         [all |-> FALSE, types |-> DateCatalogTypes \cup {"timestamp(6)(11)"}]
    [] OTHER -> [all |-> FALSE, types |-> TextCatalogTypes]

\* val['available_for'] == 'all' or data_type in val['available_for']
AvailableFor(kind, data_type) ==
  available_for(kind).all \/ data_type \in available_for(kind).types

\* str.lower() on the type names the catalogs report
Lower(s) ==
  CASE s = "NUMBER" -> "number"
    [] s = "VARCHAR2" -> "varchar2"
    [] s = "DATE" -> "date"
    [] OTHER -> s

\* the dict get_available_tests returns for a column (name, type, ...): the
\* registry, one entry per check
get_available_tests(column_info) ==
  [k \in CheckKinds |-> [available_for |-> available_for(k)]]

\* the checks the page offers for a column of this (lower-cased) type: the
\* registry entries that are 'all' or list the type
available_tests(data_type) ==
  {k \in DOMAIN get_available_tests(<<"", data_type>>) :
     \/ get_available_tests(<<"", data_type>>)[k].available_for.all
     \/ data_type \in get_available_tests(<<"", data_type>>)[k].available_for.types}

\* the type list in the guard of the range_check block of run_quality_tests
RangeDispatchTypes == {"int", "bigint", "smallint", "tinyint", "decimal", "numeric", "float",
                       "double", "real", "number"}

(***************************************************************************)
(* SQL evaluation over one column.  col is the sequence of the column's    *)
(* values in the table, one entry per row, None for NULL; a row is named   *)
(* by its position.                                                        *)
(***************************************************************************)
RowIds(col) == 1..Len(col)
NullRows(col) == {i \in RowIds(col) : col[i].null}
NonNullRows(col) == {i \in RowIds(col) : ~col[i].null}

\* a faulty get_null_count: COUNT(col), the rows that hold a value
get_null_count_of_values(backend, col) == Cardinality(NonNullRows(col))

\* WHERE col IS NULL, COUNT(*)
get_null_count(backend, col) == Cardinality(NullRows(col))

\* COUNT(DISTINCT col): NULLs are not counted
get_distinct_count(backend, col) == Cardinality({col[i].v : i \in NonNullRows(col)})

\* col IS NOT NULL AND col IN (SELECT col ... GROUP BY col HAVING COUNT(*) > 1)
NonDistinctRows(col) ==
  {i \in NonNullRows(col) : \E j \in NonNullRows(col) : j # i /\ col[j].v = col[i].v}

\* the quantity a bounds check compares: the value, or LENGTH(value)
Measure(kind, x) == IF kind = "length_check" THEN Len(x) ELSE x

SetMin(S) == CHOOSE x \in S : \A y \in S : x <= y
SetMax(S) == CHOOSE x \in S : \A y \in S : y <= x

\* SELECT MIN(..), MAX(..): both NULL when no row has a value
MinMaxOf(kind, col) ==
  LET ms == {Measure(kind, col[i].v) : i \in NonNullRows(col)}
  IN IF ms = {} THEN [min |-> None, max |-> None]
     ELSE [min |-> Some(SetMin(ms)), max |-> Some(SetMax(ms))]

get_min_max_range(backend, col) == MinMaxOf("range_check", col)
get_char_length_range(backend, col) == MinMaxOf("length_check", col)

\* rows with  col < lower ;  a comparison with NULL selects nothing
BelowRows(kind, col, lower) == {i \in NonNullRows(col) : Measure(kind, col[i].v) < lower}
\* rows with  col > upper
AboveRows(kind, col, upper) == {i \in NonNullRows(col) : Measure(kind, col[i].v) > upper}

\* get_date_range_violation_count:  col < start OR col > end
get_date_range_violation_count(backend, col, lower, upper) ==
  Cardinality(BelowRows("date_range", col, lower) \cup AboveRows("date_range", col, upper))

\* checks whose predicate is a comparison of the value with two bounds
BoundsKinds == {"range_check", "length_check", "date_range"}
\* checks whose predicate is a pattern, a list or a date expression over the
\* value.  Their predicates are not evaluated here: of the values a column
\* can hold, the first number and the one-letter string stand for the values
\* such a predicate selects, the others for the values it does not select
PatternKinds == CheckKinds \ ({"null_check", "distinct_check"} \cup BoundsKinds)

Selected(data_type, x) == IF data_type \in TextTypes THEN x = <<"a">> ELSE x = 1

PatternRows(data_type, col) == {i \in NonNullRows(col) : Selected(data_type, col[i].v)}

(***************************************************************************)
(* Row limiting.  No sampler has an ORDER BY, so the rows that satisfy the  *)
(* WHERE clause without its row limit are met in an order the database     *)
(* chooses: ord is that order, a sequence of row ids.                      *)
(***************************************************************************)
ScanOrders(rows) ==
  {f \in [1..Cardinality(rows) -> rows] : \A i, j \in 1..Cardinality(rows) : f[i] = f[j] => i = j}

\* how the limit argument reaches the query text of a sampler
\*   "limit"      LIMIT n / TOP n / FETCH FIRST n / (predicate) AND ROWNUM <= n
\*   "or_rownum"  p OR q AND ROWNUM <= n : AND binds tighter than OR
\*   "none"       the limit argument is not in the query
LimitClause(backend, kind) ==
  CASE backend = "oracle" /\ kind \in BoundsKinds -> "or_rownum"
    [] backend = "oracle" /\ kind = "datetime_check" -> "none"
    [] backend = "postgres" /\ kind = "date_format_check" -> "none"
    [] OTHER -> "limit"

RECURSIVE Fetch(_, _, _, _, _, _, _)
\* rows a query returns: first are the rows of the predicate left of OR,
\* second those of the rest; acc holds the rows returned so far, so the
\* next row would get ROWNUM Cardinality(acc) + 1
Fetch(clause, ord, i, first, second, limit, acc) ==
  IF i > Len(ord) THEN acc
  ELSE LET r == ord[i]
           take == CASE clause = "limit" -> r \in first \cup second /\ Cardinality(acc) < limit
                     [] clause = "or_rownum" -> r \in first \/ (r \in second /\ Cardinality(acc) < limit)
                     [] OTHER -> r \in first \cup second
       IN Fetch(clause, ord, i + 1, first, second, limit, IF take THEN acc \cup {r} ELSE acc)

(***************************************************************************)
(* Connector calls of a check, answered from the column.                   *)
(***************************************************************************)
\* the connector classes that define the method a check calls:
\* get_text_column_date_formats, get_date_format_violation_count and
\* get_date_format_violations exist on PostgresConnector only
MethodExists(backend, kind) ==
  kind \in {"date_check", "date_format_check"} => backend = "postgres"

\* rows of the predicate left of the OR in a sampler's WHERE clause
FirstRows(kind, col, lower) ==
  IF kind \in BoundsKinds THEN BelowRows(kind, col, lower) ELSE {}

\* rows of the rest of the WHERE clause
SecondRows(kind, data_type, col, upper) ==
  CASE kind = "null_check" -> NullRows(col)
    [] kind = "distinct_check" -> NonDistinctRows(col)
    [] kind \in BoundsKinds -> AboveRows(kind, col, upper)
    [] OTHER -> PatternRows(data_type, col)

\* the rows a sampler's WHERE clause selects when its row limit is left out
Candidates(kind, data_type, col, lower, upper) ==
  FirstRows(kind, col, lower) \cup SecondRows(kind, data_type, col, upper)

\* get_<kind>_violations(schema, table, column, ..., limit)
ViolationSampler(backend, kind, data_type, col, lower, upper, limit, ord) ==
  IF ~MethodExists(backend, kind) THEN Raise("AttributeError")
  ELSE Ok(Fetch(LimitClause(backend, kind), ord, 1, FirstRows(kind, col, lower),
                SecondRows(kind, data_type, col, upper), limit, {}))

\* the first call of a check block: a count, MIN/MAX statistics, or for
\* date_check the parsed rows that match no known date format (every table
\* explored is shorter than that method's limit of 1000 rows)
CountCall(backend, kind, data_type, col, lower, upper) ==
  IF ~MethodExists(backend, kind) THEN Raise("AttributeError")
  ELSE CASE kind = "null_check" -> Ok(get_null_count(backend, col))
         [] kind = "distinct_check" -> Ok(get_distinct_count(backend, col))
         [] kind = "range_check" -> Ok(get_min_max_range(backend, col))
         [] kind = "length_check" -> Ok(get_char_length_range(backend, col))
         [] kind = "date_range" -> Ok(get_date_range_violation_count(backend, col, lower, upper))
         [] kind = "date_check" -> Ok(PatternRows(data_type, col))
         [] OTHER -> Ok(Cardinality(PatternRows(data_type, col)))

\* row_count of get_table_analysis for a table of n rows
\*   postgres, oracle  SELECT COUNT(*)
\*   mssql             SUM(p.rows) over indexes x partitions x allocation units
\*   mysql             information_schema.tables.table_rows, which InnoDB
\*                     estimates: explored here as off by at most one row
RowCountAnswers(backend, n) ==
  CASE backend = "mssql" -> {n * u : u \in 1..MaxAllocUnits}
    [] backend = "mysql" -> IF n = 0 THEN {0} ELSE {n - 1, n, n + 1}
    [] OTHER -> {n}

(***************************************************************************)
(* The check blocks of run_quality_tests.  a1 and a2 are the answers of    *)
(* the block's first call and of its sampler call; a2 is used only when    *)
(* the block reaches the sampler.                                          *)
(***************************************************************************)
\* what a block leaves behind: the count and statistics variables, *_pass,
\* the sample it stored (None when it stored none) and, for the record, the
\* exception its except clause caught ("" when none)
BlockResult(count, stats, pass, sample, exc) ==
  [count |-> count, stats |-> stats, pass |-> pass, sample |-> sample, exc |-> exc]

\* blocks whose except clause stores no message: bare 'except:' of
\* null, distinct, range, length, number and regex_pattern
SilentExceptKinds == {"null_check", "distinct_check", "range_check", "length_check",
                      "number_check", "regex_pattern"}

\* the except clause of a block
OnExcept(kind, msg) ==
  BlockResult(None, None, IF kind \in SilentExceptKinds THEN NoOutcome ELSE FailWithText(msg),
              None, msg)

\* the else branch of 'if <kind> in tests_for_column'
NotSelected(kind) ==
  BlockResult(None, None, IF kind = "letter_check" THEN ElseOutcome ELSE NoOutcome, None, "")

\* key of violated_rows_by_column the block stores its sample under
SampleKey(kind) == IF kind = "date_logic_check" THEN "date_check" ELSE kind

\* blocks of the form  count = call(); Pass if count == 0 else sample, Fail
CountCheckBlock(kind, a1, a2) ==
  IF a1.raise THEN OnExcept(kind, a1.msg)
  ELSE IF a1.val = 0 THEN BlockResult(Some(0), None, PASS_ICON, None, "")
  ELSE IF a2.raise THEN OnExcept(kind, a2.msg)
  ELSE BlockResult(Some(a1.val), None, FAIL_ICON, Some(a2.val), "")

\* distinct_check: Pass when the distinct count equals total_rows
DistinctCheckBlock(total_rows, a1, a2) ==
  IF a1.raise THEN OnExcept("distinct_check", a1.msg)
  ELSE IF a1.val = total_rows THEN BlockResult(Some(a1.val), None, PASS_ICON, None, "")
  ELSE IF a2.raise THEN OnExcept("distinct_check", a2.msg)
  ELSE BlockResult(Some(a1.val), None, FAIL_ICON, Some(a2.val), "")

\* range_check and length_check: statistics compared with the user's bounds;
\* comparing a bound with a None statistic raises TypeError inside the try
BoundsCheckBlock(kind, user_min, user_max, a1, a2) ==
  IF a1.raise THEN OnExcept(kind, a1.msg)
  ELSE IF user_min.null \/ user_max.null THEN BlockResult(None, Some(a1.val), NoOutcome, None, "")
  ELSE IF a1.val.min.null \/ a1.val.max.null THEN OnExcept(kind, "TypeError")
  ELSE IF user_min.v <= a1.val.min.v /\ a1.val.max.v <= user_max.v
       THEN BlockResult(None, Some(a1.val), PASS_ICON, None, "")
  ELSE IF a2.raise THEN OnExcept(kind, a2.msg)
  ELSE BlockResult(None, Some(a1.val), FAIL_ICON, Some(a2.val), "")

\* date_check: the invalid rows among the parsed ones are count and sample
DateCheckBlock(a1) ==
  IF a1.raise THEN OnExcept("date_check", a1.msg)
  ELSE IF a1.val = {} THEN BlockResult(Some(0), None, PASS_ICON, None, "")
  ELSE BlockResult(Some(Cardinality(a1.val)), None, FAIL_ICON, Some(a1.val), "")

\* one try block of the loop body, for a column of type ctx.data_type
CheckBlock(kind, selected, ctx, a1, a2) ==
  CASE ~selected -> NotSelected(kind)
    [] selected /\ kind = "distinct_check" -> DistinctCheckBlock(ctx.total_rows, a1, a2)
    [] selected /\ kind = "range_check" ->
         IF ctx.data_type \in RangeDispatchTypes
         THEN BoundsCheckBlock(kind, ctx.user_min, ctx.user_max, a1, a2)
         ELSE BlockResult(None, None, NoOutcome, None, "")
    [] selected /\ kind = "length_check" -> BoundsCheckBlock(kind, ctx.user_min, ctx.user_max, a1, a2)
    [] selected /\ kind = "allowed_values" ->
         IF ctx.allowed_values_str THEN CountCheckBlock(kind, a1, a2)
         ELSE BlockResult(None, None, NoOutcome, None, "")
    [] selected /\ kind = "date_check" -> DateCheckBlock(a1)
    [] OTHER -> CountCheckBlock(kind, a1, a2)

(***************************************************************************)
(* SpecCheck: one check of one column, executed twice with no write in     *)
(* between.  The checks are those whose predicate is evaluated exactly.    *)
(* SpecSampler: the violation sampler of any check called with a limit.    *)
(***************************************************************************)
IdleRun == [phase |-> "idle"]
IdleChk == [st |-> "idle"]
IdleTck == [st |-> "idle"]
IdleMeta == [st |-> "idle"]
IdleCon == [st |-> "idle"]
IdleMem == [st |-> "idle"]
IdleFn == [st |-> "idle"]

ColumnsOf(data_type, n) == [1..n -> {None} \cup {Some(x) : x \in ValuesOf(data_type)}]

\* checks whose predicate over the column is evaluated exactly
ExactKinds == {"null_check", "distinct_check"} \cup BoundsKinds

InitCheck ==
  /\ run = IdleRun
  /\ tck = IdleTck
  /\ meta = IdleMeta
  /\ con = IdleCon
  /\ mem = IdleMem
  /\ fn = IdleFn
  /\ \E backend \in Backends, n \in 0..MaxRows, limit \in 1..MaxLimit :
       \E data_type \in ColumnTypes(backend) :
         \E kind \in available_tests(data_type) \cap ExactKinds,
            col \in ColumnsOf(data_type, n) :
           \E user_min \in (IF kind \in BoundsKinds THEN ParamVals ELSE {1}),
              user_max \in (IF kind \in BoundsKinds THEN ParamVals ELSE {1}),
              total_rows \in (IF kind = "distinct_check" THEN RowCountAnswers(backend, n) ELSE {n}) :
             chk = [st |-> "ready", backend |-> backend, data_type |-> data_type,
                    kind |-> kind, col |-> col,
                    user_min |-> user_min, user_max |-> user_max, limit |-> limit,
                    total_rows |-> total_rows, first |-> None, second |-> None, smp |-> None]

\* the block of chk.kind with the connector answering from chk.col; ord is
\* the order in which the sampler's query meets the rows
ExecuteBlock(ord) ==
  CheckBlock(chk.kind, TRUE,
             [data_type |-> chk.data_type, total_rows |-> chk.total_rows,
              user_min |-> Some(chk.user_min), user_max |-> Some(chk.user_max),
              allowed_values_str |-> TRUE],
             CountCall(chk.backend, chk.kind, chk.data_type, chk.col, chk.user_min, chk.user_max),
             ViolationSampler(chk.backend, chk.kind, chk.data_type, chk.col,
                              chk.user_min, chk.user_max, chk.limit, ord))

ChkCandidates == Candidates(chk.kind, chk.data_type, chk.col, chk.user_min, chk.user_max)

ExecuteCheck ==
  /\ chk.st = "ready"
  /\ \E ord \in ScanOrders(ChkCandidates) :
       chk' = [chk EXCEPT !.st = "ran", !.first = ExecuteBlock(ord)]
  /\ UNCHANGED <<run, tck, meta, con, mem, fn>>

ReExecuteCheck ==
  /\ chk.st = "ran"
  /\ \E ord \in ScanOrders(ChkCandidates) :
       chk' = [chk EXCEPT !.st = "reran", !.second = ExecuteBlock(ord)]
  /\ UNCHANGED <<run, tck, meta, con, mem, fn>>

NextCheck == ExecuteCheck \/ ReExecuteCheck

SpecCheck == InitCheck /\ [][NextCheck]_vars

InitSampler ==
  /\ run = IdleRun
  /\ tck = IdleTck
  /\ meta = IdleMeta
  /\ con = IdleCon
  /\ mem = IdleMem
  /\ fn = IdleFn
  /\ \E backend \in Backends, n \in 0..MaxRows, limit \in 1..MaxLimit :
       \E data_type \in ColumnTypes(backend) :
         \E kind \in (available_tests(data_type) \cup {"datetime_check"}) \ {"date_check"},
            col \in ColumnsOf(data_type, n) :
           \E user_min \in (IF kind \in BoundsKinds THEN ParamVals ELSE {1}),
              user_max \in (IF kind \in BoundsKinds THEN ParamVals ELSE {1}) :
             chk = [st |-> "ready", backend |-> backend, data_type |-> data_type,
                    kind |-> kind, col |-> col,
                    user_min |-> user_min, user_max |-> user_max, limit |-> limit,
                    total_rows |-> n, first |-> None, second |-> None, smp |-> None]

\* a sampler called on its own with limit chk.limit
CallSampler ==
  /\ chk.st = "ready"
  /\ \E ord \in ScanOrders(ChkCandidates) :
       LET a == ViolationSampler(chk.backend, chk.kind, chk.data_type, chk.col,
                                 chk.user_min, chk.user_max, chk.limit, ord)
       IN chk' = [chk EXCEPT !.st = "sampled", !.smp = IF a.raise THEN None ELSE Some(a.val)]
  /\ UNCHANGED <<run, tck, meta, con, mem, fn>>

NextSampler == CallSampler

SpecSampler == InitSampler /\ [][NextSampler]_vars

(***************************************************************************)
(* Properties of a single check (SpecCheck).                               *)
(***************************************************************************)
Executed == chk.st \in {"ran", "reran"}
NullRowCount == Cardinality({i \in 1..Len(chk.col) : chk.col[i] = None})
OutsideBounds(i) ==
  /\ chk.col[i] # None
  /\ \/ Measure(chk.kind, chk.col[i].v) < chk.user_min
     \/ Measure(chk.kind, chk.col[i].v) > chk.user_max

\* C5: for a column with exactly k NULLs among n rows the null check reports
\* the violation count k, Pass exactly when k = 0, and for k > 0 stores a
\* sample made only of rows whose value is NULL
C5_NullCheck ==
  (Executed /\ chk.kind = "null_check") =>
     /\ chk.first.count = Some(NullRowCount)
     /\ chk.first.pass = (IF NullRowCount = 0 THEN PASS_ICON ELSE FAIL_ICON)
     /\ NullRowCount > 0 =>
          /\ chk.first.sample # None
          /\ chk.first.sample.v # {}
          /\ \A i \in chk.first.sample.v : chk.col[i] = None

\* a null check that failed on a column holding NULLs and values, the number
\* of NULL rows above the sample limit
C5_Witness ==
  /\ Executed /\ chk.kind = "null_check"
  /\ NullRowCount > chk.limit
  /\ NullRowCount < Len(chk.col)
  /\ chk.first.pass = FAIL_ICON

AllDifferentNoNull ==
  /\ \A i \in 1..Len(chk.col) : chk.col[i] # None
  /\ \A i, j \in 1..Len(chk.col) : chk.col[i] = chk.col[j] => i = j

DuplicatedRows ==
  {i \in 1..Len(chk.col) : \E j \in 1..Len(chk.col) : j # i /\ chk.col[j] = chk.col[i]}

\* C6: on a column without NULLs whose values are pairwise different the
\* distinct count equals the row count and distinct_check is Pass; when a value
\* occurs twice the check is Fail and the sample holds rows of the duplicated
\* values, up to the sample limit
C6_DistinctBoundary ==
  (Executed /\ chk.kind = "distinct_check" /\ \A i \in 1..Len(chk.col) : chk.col[i] # None) =>
     /\ AllDifferentNoNull =>
          /\ chk.first.count = Some(Len(chk.col))
          /\ chk.total_rows = Len(chk.col)
          /\ chk.first.pass = PASS_ICON
     /\ ~AllDifferentNoNull =>
          /\ chk.first.pass = FAIL_ICON
          /\ chk.first.sample # None
          /\ chk.first.sample.v \subseteq DuplicatedRows
          /\ Cardinality(chk.first.sample.v) = Min2(Cardinality(DuplicatedRows), chk.limit)

\* C7: for a numeric column with a non-null value and bounds [lo, hi] the range
\* check is Pass exactly when lo <= min and max <= hi, and otherwise Fail with
\* a sample whose rows all have a value below lo or above hi
C7_RangeCheck ==
  (/\ Executed /\ chk.kind = "range_check"
   /\ \E i \in 1..Len(chk.col) : chk.col[i] # None) =>
     IF \A i \in 1..Len(chk.col) : ~OutsideBounds(i)
     THEN chk.first.pass = PASS_ICON
     ELSE /\ chk.first.pass = FAIL_ICON
          /\ chk.first.sample # None
          /\ \A i \in chk.first.sample.v : OutsideBounds(i)

\* rows that break the rule of the executed check
ViolatingRows ==
  CASE chk.kind = "null_check" -> {i \in 1..Len(chk.col) : chk.col[i] = None}
    [] chk.kind = "distinct_check" -> {i \in 1..Len(chk.col) : chk.col[i] = None} \cup DuplicatedRows
    [] OTHER -> {i \in 1..Len(chk.col) : OutsideBounds(i)}

\* C9: a check reported Fail with V violating rows and sample limit L has
\* stored a sample of exactly min(V, L) rows, so never an empty one
C9_SampleSizeExact ==
  (Executed /\ chk.first.pass = FAIL_ICON) =>
     /\ chk.first.sample # None
     /\ chk.first.sample.v # {}
     /\ Cardinality(chk.first.sample.v) = Min2(Cardinality(ViolatingRows), chk.limit)

\* C2: the list a violation sampler returns when called with limit L has at
\* most L rows, for every check kind on every connector
C2_BoundedSampling ==
  (chk.st = "sampled" /\ chk.smp # None) => Cardinality(chk.smp.v) <= chk.limit

\* C10: two executions of the same check with no write in between return the
\* same violation count, the same outcome and the same set of sample rows
C10_Idempotent ==
  chk.st = "reran" =>
     /\ chk.first.count = chk.second.count
     /\ chk.first.pass = chk.second.pass
     /\ chk.first.sample = chk.second.sample

(***************************************************************************)
(* Spec: run_quality_tests over the selected columns of a table.  The      *)
(* inputs are what show_quality_tests_page hands over: for each selected   *)
(* column a list of checks taken from the checks offered for its type.     *)
(* The connector's answers (a value or an exception) are inputs of the     *)
(* loop body.                                                              *)
(***************************************************************************)
\* largest number of checks selected over all columns of one run
MaxSelected == 2

\* the selected columns, in table order
ColumnIds == {1, 2}

\* the order of the try blocks in the loop body
BlockOrder == <<"null_check", "distinct_check", "range_check", "length_check",
                "letter_check", "number_check", "allowed_values", "eng_numeric_format",
                "tr_numeric_format", "case_consistency", "future_date", "date_range",
                "no_special_chars", "email_format", "regex_pattern", "positive_value",
                "tckn_check", "date_check", "date_logic_check", "date_format_check">>

Pos(kind) == CHOOSE i \in 1..Len(BlockOrder) : BlockOrder[i] = kind

\* keys of the dict appended to metrics for a column
MetricsKeys ==
  {"Column", "Data Type", "Null Count", "Null Pass", "Null %", "Distinct Count",
   "Distinct Pass", "Distinct %", "Min", "Max", "Range", "Range Pass", "Min Length",
   "Max Length", "Length Pass", "Invalid Datetime Count", "Datetime Pass",
   "Letter Count", "Letter Pass", "Letter Violation %", "Number Count", "Number Pass",
   "Number Violation %", "Allowed Values Violation Count",
   "Allowed Values Non Violation Count", "Allowed Values Pass",
   "ENG Numeric Format Violation Count", "ENG Numeric Format Pass",
   "TR Numeric Format Violation Count", "TR Numeric Format Pass",
   "Case Inconsistency Count", "Case Inconsistency Pass",
   "Future Date Violation Count", "Future Date Pass", "Date Range Violation Count",
   "Date Range Pass", "Special Char Violation Count", "Special Char Pass",
   "Email Format Violation Count", "Email Format Pass",
   "Regex Pattern Violation Count", "Regex Pattern Pass",
   "Positive Value Violation Count", "Positive Value Pass",
   "TCKN Check Violation Count", "TCKN Check Pass", "Date Check Violation Count",
   "Date Check Pass", "Date Logic Violation Count", "Date Logic Check Pass",
   "ENG Numeric Format Violation %", "TR Numeric Format Violation %",
   "Case Inconsistency %", "Future Date Violation %", "Date Range Violation %",
   "Special Char Violation %", "Email Format Violation %", "Regex Pattern Violation %",
   "Positive Value Violation %", "TCKN Check Violation %", "Date Check Violation %",
   "Date Logic Violation %", "Date Format Violation Count", "Date Format Pass",
   "Date Format Violation %"}

\* columns of the summary a selected check asks for
CustomCols(kind) ==
  CASE kind = "null_check" -> {"Null Count", "Null %", "Null Pass"}
    [] kind = "distinct_check" -> {"Distinct Count", "Distinct %", "Distinct Pass"}
    [] kind = "range_check" -> {"Min", "Max", "Range", "Range Pass"}
    [] kind = "length_check" -> {"Min Length", "Max Length", "Length Pass"}
    [] kind = "datetime_check" -> {"Invalid Datetime Count", "Datetime Pass"}
    [] kind = "letter_check" -> {"Letter Count", "Letter Pass", "Letter Violation %"}
    [] kind = "number_check" -> {"Number Count", "Number Pass", "Number Violation %"}
    [] kind = "allowed_values" -> {"Allowed Values Violation Count", "Allowed Values Violation %",
                                   "Allowed Values Non Violation Count", "Allowed Values Pass"}
    [] kind = "eng_numeric_format" -> {"ENG Numeric Format Violation Count",
                                       "ENG Numeric Format Violation %", "ENG Numeric Format Pass"}
    [] kind = "tr_numeric_format" -> {"TR Numeric Format Violation Count",
                                      "TR Numeric Format Violation %", "TR Numeric Format Pass"}
    [] kind = "case_consistency" -> {"Case Inconsistency Count", "Case Inconsistency %",
                                     "Case Inconsistency Pass"}
    [] kind = "future_date" -> {"Future Date Violation Count", "Future Date Violation %",
                                "Future Date Pass"}
    [] kind = "date_range" -> {"Date Range Violation Count", "Date Range Violation %",
                               "Date Range Pass"}
    [] kind = "no_special_chars" -> {"Special Char Violation Count", "Special Char Violation %",
                                     "Special Char Pass"}
    [] kind = "email_format" -> {"Email Format Violation Count", "Email Format Violation %",
                                 "Email Format Pass"}
    [] kind = "regex_pattern" -> {"Regex Pattern Violation Count", "Regex Pattern Violation %",
                                  "Regex Pattern Pass"}
    [] kind = "positive_value" -> {"Positive Value Violation Count", "Positive Value Violation %",
                                   "Positive Value Pass"}
    [] kind = "tckn_check" -> {"TCKN Check Violation Count", "TCKN Check Violation %",
                               "TCKN Check Pass"}
    [] kind = "date_check" -> {"Date Check Violation Count", "Date Check Violation %",
                               "Date Check Pass"}
    [] kind = "date_logic_check" -> {"Date Logic Violation Count", "Date Logic Violation %",
                                     "Date Logic Check Pass"}
    [] kind = "date_format_check" -> {"Date Format Violation Count", "Date Format Pass",
                                      "Date Format Violation %"}
    [] OTHER -> {}

\* the bounds the page passes for range_check and length_check
RunBounds == [min |-> 1, max |-> 2]

\* row_count of the table of a run
RunRowCounts == {1}

\* what the database can answer to the first call of a block: an error, the
\* answer for a column that satisfies the rule ("clean"), for one that breaks
\* it ("dirty"), and for one without values ("empty")
CountChoices == {"raise", "clean", "dirty", "empty"}

CountAnswer(backend, kind, total_rows, c) ==
  CASE ~MethodExists(backend, kind) -> Raise("AttributeError")
    [] MethodExists(backend, kind) /\ c = "raise" -> Raise("DatabaseError")
    [] MethodExists(backend, kind) /\ c # "raise" /\ kind \in {"range_check", "length_check"} ->
         Ok(CASE c = "clean" -> [min |-> Some(1), max |-> Some(2)]
              [] c = "dirty" -> [min |-> Some(0), max |-> Some(3)]
              [] OTHER -> [min |-> None, max |-> None])
    [] MethodExists(backend, kind) /\ c # "raise" /\ kind = "date_check" ->
         Ok(IF c = "dirty" THEN {1} ELSE {})
    [] MethodExists(backend, kind) /\ c # "raise" /\ kind = "distinct_check" ->
         Ok(IF c = "clean" THEN total_rows ELSE 0)
    [] OTHER -> Ok(IF c = "dirty" THEN 1 ELSE 0)

\* what the database can answer to the sampler call of a block: an error
\* or a row
SamplerChoices == {"raise", "rows"}

SamplerAnswer(backend, kind, c) ==
  CASE ~MethodExists(backend, kind) -> Raise("AttributeError")
    [] MethodExists(backend, kind) /\ c = "raise" -> Raise("DatabaseError")
    [] OTHER -> Ok({1})

SubsetsUpTo(S, n) == {T \in SUBSET S : Cardinality(T) <= n}

Init ==
  /\ chk = IdleChk
  /\ tck = IdleTck
  /\ meta = IdleMeta
  /\ con = IdleCon
  /\ mem = IdleMem
  /\ fn = IdleFn
  /\ \E backend \in Backends :
       \E types \in [ColumnIds -> ColumnTypes(backend)] :
         \E t1 \in SubsetsUpTo(available_tests(types[1]), MaxSelected) :
           \E t2 \in SubsetsUpTo(available_tests(types[2]), MaxSelected - Cardinality(t1)) :
             \E allowed \in [ColumnIds -> BOOLEAN] :
               /\ \A i \in ColumnIds :
                    "allowed_values" \notin (IF i = 1 THEN t1 ELSE t2) => allowed[i]
               /\ run = [phase |-> "called", backend |-> backend, types |-> types,
                         column_test_map |-> [i \in ColumnIds |-> IF i = 1 THEN t1 ELSE t2],
                         allowed_values_str |-> allowed,
                         total_rows |-> 0, idx |-> 0, metrics |-> <<>>,
                         violated |-> {}, raised |-> {}, txn_aborted |-> FALSE]

\* get_cached_columns, get_cached_table_analysis, total_rows, empty metrics
StartRun ==
  /\ run.phase = "called"
  /\ \E n \in RunRowCounts :
       run' = [run EXCEPT !.phase = "loop", !.idx = 1, !.total_rows = n]
  /\ UNCHANGED <<chk, tck, meta, con, mem, fn>>

\* PostgresConnector opens its connection without autocommit and never rolls
\* back: once a statement has failed, every later statement on the connection
\* fails until the connection is replaced
FailsAfterError(backend, failed_before, tests, c1, results) ==
  backend = "postgres" =>
    \A k \in tests :
      (\/ failed_before
       \/ \E j \in tests : Pos(j) < Pos(k) /\ results[j].exc = "DatabaseError")
      => c1[k] = "raise"

\* the entries of violated_rows_by_column a column's blocks leave behind: under
\* each key the sample of the last block that stored one there
StoredSamples(i, tests, results) ==
  {[col |-> i, key |-> SampleKey(k), by |-> k, rows |-> results[k].sample.v] :
     k \in {k \in tests :
              /\ results[k].sample # None
              /\ \A j \in tests :
                   (results[j].sample # None /\ SampleKey(j) = SampleKey(k)) => Pos(j) <= Pos(k)}}

\* one iteration of the loop over selected_columns_info: the twenty try
\* blocks in order, then metrics.append
ProcessColumn ==
  /\ run.phase = "loop"
  /\ run.idx \in ColumnIds
  /\ LET i == run.idx
         tests == run.column_test_map[i]
         ctx == [data_type |-> run.types[i], total_rows |-> run.total_rows,
                 user_min |-> Some(RunBounds.min), user_max |-> Some(RunBounds.max),
                 allowed_values_str |-> run.allowed_values_str[i]]
     IN \E c1 \in [tests -> CountChoices], c2 \in [tests -> SamplerChoices] :
          LET results == [k \in CheckKinds |->
                            IF k \in tests
                            THEN CheckBlock(k, TRUE, ctx, CountAnswer(run.backend, k, run.total_rows, c1[k]),
                                            SamplerAnswer(run.backend, k, c2[k]))
                            ELSE NotSelected(k)]
          IN /\ FailsAfterError(run.backend, run.txn_aborted, tests, c1, results)
             /\ run' = [run EXCEPT
                          !.idx = i + 1,
                          !.metrics = Append(@, [pass |-> [k \in CheckKinds |-> results[k].pass],
                                                 count |-> [k \in CheckKinds |-> results[k].count],
                                                 stats |-> [k \in CheckKinds |-> results[k].stats]]),
                          !.violated = @ \cup StoredSamples(i, tests, results),
                          !.raised = @ \cup {<<i, k>> : k \in {k \in tests :
                                               results[k].exc \in {"DatabaseError", "AttributeError"}}},
                          !.txn_aborted = @ \/ (run.backend = "postgres" /\
                                                \E k \in tests : results[k].exc = "DatabaseError")]
  /\ UNCHANGED <<chk, tck, meta, con, mem, fn>>

\* pd.DataFrame(metrics), the per-column summary tables and the preview of
\* the violated rows: selecting a column that metrics does not hold raises
\* KeyError out of run_quality_tests; the preview draws each table inside its
\* own try
BuildReport ==
  /\ run.phase = "loop"
  /\ run.idx \notin ColumnIds
  /\ run' = [run EXCEPT !.phase =
               IF \A i \in ColumnIds : \A k \in run.column_test_map[i] : CustomCols(k) \subseteq MetricsKeys
               THEN "done" ELSE "aborted"]
  /\ UNCHANGED <<chk, tck, meta, con, mem, fn>>

Next == StartRun \/ ProcessColumn \/ BuildReport

Spec == Init /\ [][Next]_vars

(***************************************************************************)
(* Properties of a run (Spec).                                             *)
(***************************************************************************)
Returned == run.phase = "done"
Ended == run.phase \in {"done", "aborted"}
SelectedPairs == {<<i, k>> \in ColumnIds \X CheckKinds : k \in run.column_test_map[i]}
OutcomeOf(i, k) == run.metrics[i].pass[k]

\* C1: whatever connector calls raise, the run does not abort and the report
\* holds a Pass or Fail outcome for every selected (column, check) pair whose
\* own calls did not raise
C1_PartialFailureIsolation ==
  Ended =>
    /\ run.phase # "aborted"
    /\ \A p \in SelectedPairs :
         p \notin run.raised => OutcomeOf(p[1], p[2]) \in {PASS_ICON, FAIL_ICON}

\* C3: when run_quality_tests returns, every check selected for a processed
\* column and listed by the catalog for the column's type is in a terminal
\* state: Pass, Fail, or Indeterminate after an exception; none is left empty
C3_TerminalState ==
  Returned =>
    \A p \in SelectedPairs :
      AvailableFor(p[2], run.types[p[1]]) =>
        \/ OutcomeOf(p[1], p[2]) \in {PASS_ICON, FAIL_ICON}
        \/ p \in run.raised

\* C4: when a connector call of a check raises during the run, the outcome
\* of that check carries the text of the exception
C4_ErrorTextRecorded ==
  \A p \in run.raised :
    /\ OutcomeOf(p[1], p[2]).icon = "fail"
    /\ OutcomeOf(p[1], p[2]).err # ""

\* C13: no check of a run ends with the error of a method the connector does
\* not define: every method run_quality_tests calls exists on all four
\* connectors
C13_MethodsOnEveryConnector ==
  \A i \in 1..Len(run.metrics) : \A k \in CheckKinds :
    run.metrics[i].pass[k].err # "AttributeError"

\* C22: a run in which no connector call raised reaches the end of
\* run_quality_tests: every summary column a selected check asks for is a
\* key of the metrics record, so assembling the report does not abort
C22_ReportAssembly ==
  Ended /\ run.raised = {} => Returned

\* C24: every sample of violated_rows_by_column is stored under the pair
\* (column, check) of the check that produced it
C24_SamplesUnderOwnKey ==
  \A e \in run.violated : e.key = e.by

(***************************************************************************)
(* SpecTckn: get_tckn_violation_count of each connector on one value of    *)
(* eleven digits.  The value is a valid TCKN, or a valid TCKN whose tenth  *)
(* or eleventh digit was replaced.                                         *)
(***************************************************************************)
\* digits explored in positions 2..9 and in position 1 (never 0)
BodyDigits == {0, 9}
LeadDigits == {1, 9}
Digits == 0..9

OddSum(v) == v[1] + v[3] + v[5] + v[7] + v[9]
EvenSum(v) == v[2] + v[4] + v[6] + v[8]
FirstTen(v) == OddSum(v) + EvenSum(v) + v[10]

\* the TCKN algorithm, remainders taken non-negative
TcknValid(v) ==
  /\ v[1] # 0
  /\ v[10] = (OddSum(v) * 7 - EvenSum(v)) % 10
  /\ v[11] = FirstTen(v) % 10

\* a % b of PostgreSQL, SQL Server and MySQL: the sign of the dividend
Remainder(a, b) == IF a >= 0 THEN a % b ELSE 0 - ((0 - a) % b)

\* the predicate inside NOT ( ... ) of the count query, for a value made of
\* digits: length 11, digits only, first digit not '0', the two check digits
TcknPredicate(v) ==
  /\ Len(v) = 11
  /\ \A i \in 1..Len(v) : v[i] \in Digits
  /\ v[1] # 0
  /\ Remainder(OddSum(v) * 7 - EvenSum(v), 10) = v[10]
  /\ Remainder(FirstTen(v), 10) = v[11]

\* get_tckn_violation_count for a table whose only row holds v: 0, 1, or an
\* error of the database
\*   mysql   the digits are CAST to UNSIGNED, and an UNSIGNED subtraction
\*           whose result is negative is an out-of-range error
\*   oracle  the remainder is written  ( ... ) MOD 10 ; Oracle SQL has the
\*           function MOD(a, b) but no MOD operator, the statement is rejected
get_tckn_violation_count(backend, v) ==
  CASE backend = "oracle" -> Raise("DatabaseError")
    [] backend = "mysql" /\ OddSum(v) * 7 - EvenSum(v) < 0 -> Raise("DatabaseError")
    [] OTHER -> Ok(IF TcknPredicate(v) THEN 0 ELSE 1)

\* the valid TCKN that starts with the nine digits d
WithCheckDigits(d) ==
  LET d10 == (OddSum(d) * 7 - EvenSum(d)) % 10
      d11 == (OddSum(d) + EvenSum(d) + d10) % 10
  IN d \o <<d10, d11>>

InitTckn ==
  /\ run = IdleRun
  /\ chk = IdleChk
  /\ meta = IdleMeta
  /\ con = IdleCon
  /\ mem = IdleMem
  /\ fn = IdleFn
  /\ \E lead \in LeadDigits, body \in [1..8 -> BodyDigits], pos \in {0, 10, 11}, digit \in Digits :
       LET valid == WithCheckDigits(<<lead>> \o body)
       IN /\ pos = 0 => digit = 0
          /\ pos # 0 => digit # valid[pos]
          /\ tck = [st |-> "value", replaced |-> pos,
                    value |-> IF pos = 0 THEN valid ELSE [valid EXCEPT ![pos] = digit],
                    backend |-> "", answer |-> None]

CountTcknViolations ==
  /\ tck.st = "value"
  /\ \E backend \in Backends :
       tck' = [tck EXCEPT !.st = "counted", !.backend = backend,
                          !.answer = get_tckn_violation_count(backend, tck.value)]
  /\ UNCHANGED <<run, chk, meta, con, mem, fn>>

NextTckn == CountTcknViolations

SpecTckn == InitTckn /\ [][NextTckn]_vars

\* C8: every connector counts a valid TCKN as no violation, also when
\* (odd sum) * 7 - (even sum) is negative, and counts it as a violation once
\* its tenth or eleventh digit is replaced by another digit
C8_TcknChecksum ==
  tck.st = "counted" =>
    /\ ~tck.answer.raise
    /\ tck.answer.val = (IF TcknValid(tck.value) THEN 0 ELSE 1)
    /\ tck.replaced # 0 => tck.answer.val = 1

(***************************************************************************)
(* SpecMeta: the metadata calls of a connector on one schema: the object   *)
(* listing, the column list of a table (get_columns and the 'columns'      *)
(* entry of get_table_analysis) and the check registry of a column.  The   *)
(* database's catalog views answer with their native fields; each query is *)
(* its SELECT list and its ORDER BY key.                                   *)
(***************************************************************************)
\* largest number of columns of the table
MaxCols == 3

\* the columns a table of each backend is made of, as they were declared
ColumnPool(backend) ==
  CASE backend = "postgres" ->
         {[name |-> "id", type |-> "integer", nullable |-> FALSE,
           max_length |-> None, precision |-> Some(32), scale |-> Some(0)],
          [name |-> "email", type |-> "character varying", nullable |-> TRUE,
           max_length |-> Some(20), precision |-> None, scale |-> None],
          [name |-> "amount", type |-> "numeric", nullable |-> TRUE,
           max_length |-> None, precision |-> Some(8), scale |-> Some(2)]}
    [] backend = "mssql" ->
         {[name |-> "id", type |-> "int", nullable |-> FALSE,
           max_length |-> Some(4), precision |-> Some(10), scale |-> Some(0)],
          [name |-> "email", type |-> "varchar", nullable |-> TRUE,
           max_length |-> Some(20), precision |-> Some(0), scale |-> Some(0)],
          [name |-> "amount", type |-> "float", nullable |-> TRUE,
           max_length |-> Some(8), precision |-> Some(53), scale |-> Some(0)]}
    [] backend = "mysql" ->
         {[name |-> "id", type |-> "int", nullable |-> FALSE,
           max_length |-> None, precision |-> Some(10), scale |-> Some(0)],
          [name |-> "email", type |-> "varchar", nullable |-> TRUE,
           max_length |-> Some(20), precision |-> None, scale |-> None],
          [name |-> "amount", type |-> "double", nullable |-> TRUE,
           max_length |-> None, precision |-> Some(22), scale |-> None]}
    [] backend = "oracle" ->
         {[name |-> "ID", type |-> "NUMBER", nullable |-> FALSE,
           max_length |-> Some(22), precision |-> Some(8), scale |-> Some(0)],
          [name |-> "EMAIL", type |-> "VARCHAR2", nullable |-> TRUE,
           max_length |-> Some(20), precision |-> None, scale |-> None],
          [name |-> "CREATED", type |-> "DATE", nullable |-> TRUE,
           max_length |-> Some(7), precision |-> None, scale |-> None]}

\* tables: the columns in the order of their declaration, no name twice
TablesOf(backend) ==
  UNION {{t \in [1..n -> ColumnPool(backend)] : \A i, j \in 1..n : t[i] = t[j] => i = j} :
           n \in 1..MaxCols}

\* the row of the backend's column catalog for the column at position pos:
\*   postgres, mysql  information_schema.columns
\*   mssql            sys.columns c joined with sys.types t
\*   oracle           all_tab_columns
CatalogRow(backend, col, pos) ==
  CASE backend \in {"postgres", "mysql"} ->
         [f \in {"column_name", "data_type", "is_nullable", "character_maximum_length",
                 "numeric_precision", "numeric_scale", "ordinal_position"} |->
            CASE f = "column_name" -> col.name
              [] f = "data_type" -> col.type
              [] f = "is_nullable" -> IF col.nullable THEN "YES" ELSE "NO"
              [] f = "character_maximum_length" -> col.max_length
              [] f = "numeric_precision" -> col.precision
              [] f = "numeric_scale" -> col.scale
              [] OTHER -> pos]
    [] backend = "mssql" ->
         [f \in {"c.name", "t.name", "c.is_nullable", "c.max_length", "c.precision",
                 "c.scale", "c.column_id"} |->
            CASE f = "c.name" -> col.name
              [] f = "t.name" -> col.type
              [] f = "c.is_nullable" -> IF col.nullable THEN 1 ELSE 0
              [] f = "c.max_length" -> col.max_length
              [] f = "c.precision" -> col.precision
              [] f = "c.scale" -> col.scale
              [] OTHER -> pos]
    [] OTHER ->
         [f \in {"column_name", "data_type", "nullable", "data_length", "data_precision",
                 "data_scale", "column_id"} |->
            CASE f = "column_name" -> col.name
              [] f = "data_type" -> col.type
              [] f = "nullable" -> IF col.nullable THEN "Y" ELSE "N"
              [] f = "data_length" -> col.max_length
              [] f = "data_precision" -> col.precision
              [] f = "data_scale" -> col.scale
              [] OTHER -> pos]

\* the catalog rows of a table; a query meets them in no particular order
CatalogRows(backend, table) == {CatalogRow(backend, table[i], i) : i \in 1..Len(table)}

\* an expression of a SELECT list on a catalog row
EvalExpr(expr, row) ==
  IF expr = "CASE WHEN c.is_nullable = 1 THEN 'YES' ELSE 'NO' END"
  THEN IF row["c.is_nullable"] = 1 THEN "YES" ELSE "NO"
  ELSE row[expr]

\* SELECT list and ORDER BY key of get_columns
ColumnsQuery(backend) ==
  CASE backend \in {"postgres", "mysql"} ->
         [select |-> <<"column_name", "data_type", "is_nullable", "character_maximum_length",
                       "numeric_precision", "numeric_scale">>,
          order_by |-> "ordinal_position"]
    [] backend = "mssql" ->
         [select |-> <<"c.name", "t.name", "CASE WHEN c.is_nullable = 1 THEN 'YES' ELSE 'NO' END",
                       "c.max_length", "c.precision", "c.scale">>,
          order_by |-> "c.column_id"]
    [] OTHER ->
         [select |-> <<"column_name", "data_type", "nullable", "data_length",
                       "data_precision", "data_scale">>,
          order_by |-> "column_id"]

\* SELECT list and ORDER BY key of the column query inside get_table_analysis
AnalysisColumnsQuery(backend) ==
  CASE backend \in {"postgres", "mysql"} ->
         [select |-> <<"column_name", "data_type", "is_nullable", "character_maximum_length",
                       "numeric_precision", "numeric_scale">>,
          order_by |-> "ordinal_position"]
    [] backend = "mssql" ->
         [select |-> <<"c.name", "t.name", "CASE WHEN c.is_nullable = 1 THEN 'YES' ELSE 'NO' END",
                       "c.max_length", "c.precision", "c.scale">>,
          order_by |-> "c.column_id"]
    [] OTHER ->
         [select |-> <<"column_name", "data_type", "nullable", "data_length",
                       "data_precision", "data_scale">>,
          order_by |-> "column_id"]

\* cursor.fetchall() of  SELECT q.select ... ORDER BY q.order_by : one tuple
\* per row, the rows in ascending order of the key
FetchAll(q, rows) ==
  [i \in 1..Cardinality(rows) |->
     LET row == CHOOSE r \in rows :
                  Cardinality({x \in rows : x[q.order_by] < r[q.order_by]}) = i - 1
     IN [j \in 1..Len(q.select) |-> EvalExpr(q.select[j], row)]]

\* a faulty get_columns: the SELECT list without its last expression
get_columns_without_scale(backend, table) ==
  FetchAll([select |-> SubSeq(ColumnsQuery(backend).select, 1, 5),
            order_by |-> ColumnsQuery(backend).order_by],
           CatalogRows(backend, table))

get_columns(backend, table) == FetchAll(ColumnsQuery(backend), CatalogRows(backend, table))

\* the 'columns' entry of the dict get_table_analysis returns
get_table_analysis_columns(backend, table) ==
  FetchAll(AnalysisColumnsQuery(backend), CatalogRows(backend, table))

\* names of the objects a schema can hold, in alphabetical order
ObjectNames == <<"customers", "orders">>

\* a schema: for each name no object, a table or a view
SchemasOf == [1..Len(ObjectNames) -> {"none", "table", "view"}]

\* the type a backend's catalog stores for a table or a view:
\*   postgres, mysql  information_schema.tables.table_type
\*   mssql            sys.objects.type
\*   oracle           the object is a row of all_tables or of all_views
NativeObjectType(backend, kind) ==
  CASE backend \in {"postgres", "mysql"} -> IF kind = "view" THEN "VIEW" ELSE "BASE TABLE"
    [] backend = "mssql" -> IF kind = "view" THEN "V" ELSE "U"
    [] OTHER -> IF kind = "view" THEN "all_views" ELSE "all_tables"

\* the second expression of the SELECT list of get_all_tables_and_views
\*   postgres  table_type
\*   mssql     CASE WHEN t.type = 'V' THEN 'VIEW' ELSE 'TABLE' END
\*   mysql     CASE WHEN table_type = 'VIEW' THEN 'VIEW' ELSE 'TABLE' END
\*   oracle    'TABLE' for the rows of all_tables, 'VIEW' for those of all_views
ObjectTypeExpr(backend, native) ==
  CASE backend = "postgres" -> native
    [] backend = "mssql" -> IF native = "V" THEN "VIEW" ELSE "TABLE"
    [] backend = "mysql" -> IF native = "VIEW" THEN "VIEW" ELSE "TABLE"
    [] OTHER -> IF native = "all_views" THEN "VIEW" ELSE "TABLE"

\* get_all_tables_and_views: the (name, kind) pairs of the schema's objects,
\* ORDER BY name
get_all_tables_and_views(backend, objects) ==
  LET present == {n \in DOMAIN objects : objects[n] # "none"}
  IN [i \in 1..Cardinality(present) |->
        LET n == CHOOSE x \in present : Cardinality({y \in present : y < x}) = i - 1
        IN <<ObjectNames[n], ObjectTypeExpr(backend, NativeObjectType(backend, objects[n]))>>]

InitMeta ==
  /\ run = IdleRun
  /\ chk = IdleChk
  /\ tck = IdleTck
  /\ con = IdleCon
  /\ mem = IdleMem
  /\ fn = IdleFn
  /\ \E backend \in Backends, objects \in SchemasOf :
       \E table \in TablesOf(backend) :
         meta = [st |-> "ready", backend |-> backend, objects |-> objects, table |-> table,
                 op |-> "", column |-> 0, answer |-> None]

GetColumns ==
  /\ meta.st = "ready"
  /\ meta' = [meta EXCEPT !.st = "done", !.op = "get_columns",
                          !.answer = get_columns(meta.backend, meta.table)]
  /\ UNCHANGED <<run, chk, tck, con, mem, fn>>

GetTableAnalysis ==
  /\ meta.st = "ready"
  /\ meta' = [meta EXCEPT !.st = "done", !.op = "get_table_analysis",
                          !.answer = get_table_analysis_columns(meta.backend, meta.table)]
  /\ UNCHANGED <<run, chk, tck, con, mem, fn>>

GetAllTablesAndViews ==
  /\ meta.st = "ready"
  /\ meta' = [meta EXCEPT !.st = "done", !.op = "get_all_tables_and_views",
                          !.answer = get_all_tables_and_views(meta.backend, meta.objects)]
  /\ UNCHANGED <<run, chk, tck, con, mem, fn>>

\* get_available_tests(selected_col_info) for a column of get_columns
GetAvailableTests ==
  /\ meta.st = "ready"
  /\ \E i \in 1..Len(meta.table) :
       meta' = [meta EXCEPT !.st = "done", !.op = "get_available_tests", !.column = i,
                            !.answer = DOMAIN get_available_tests(get_columns(meta.backend, meta.table)[i])]
  /\ UNCHANGED <<run, chk, tck, con, mem, fn>>

NextMeta == GetColumns \/ GetTableAnalysis \/ GetAllTablesAndViews \/ GetAvailableTests

SpecMeta == InitMeta /\ [][NextMeta]_vars

(***************************************************************************)
(* Properties of the metadata calls (SpecMeta).                            *)
(***************************************************************************)
\* C11: get_columns and the 'columns' entry of get_table_analysis hold one
\* tuple per column of the table, in the order of declaration, each of six
\* fields: name, type, nullable, max_length, precision, scale
C11_ColumnTupleShape ==
  (meta.st = "done" /\ meta.op \in {"get_columns", "get_table_analysis"}) =>
     /\ Len(meta.answer) = Len(meta.table)
     /\ \A i \in 1..Len(meta.table) :
          /\ Len(meta.answer[i]) = 6
          /\ meta.answer[i][1] = meta.table[i].name
          /\ meta.answer[i][2] = meta.table[i].type
          /\ meta.answer[i][3] \in {"YES", "NO", "Y", "N"}
          /\ (meta.answer[i][3] \in {"YES", "Y"}) = meta.table[i].nullable
          /\ meta.answer[i][4] = meta.table[i].max_length
          /\ meta.answer[i][5] = meta.table[i].precision
          /\ meta.answer[i][6] = meta.table[i].scale

\* get_columns has answered for a table of three columns on SQL Server, whose
\* nullable field is computed by a CASE expression
C11_Witness ==
  /\ meta.st = "done" /\ meta.op = "get_columns"
  /\ meta.backend = "mssql"
  /\ Len(meta.table) = MaxCols
  /\ Len(meta.answer) = MaxCols
  /\ meta.answer[1][1] = "email"

\* C12: every pair get_all_tables_and_views returns has the kind "TABLE" or
\* "VIEW", on each connector
C12_ListingNormalized ==
  (meta.st = "done" /\ meta.op = "get_all_tables_and_views") =>
     \A i \in 1..Len(meta.answer) : meta.answer[i][2] \in {"TABLE", "VIEW"}

\* C20: get_available_tests(column) returns only checks whose available_for is
\* 'all' or lists the column's lower-cased type
C20_AvailableTestsFiltered ==
  (meta.st = "done" /\ meta.op = "get_available_tests") =>
     \A k \in meta.answer : AvailableFor(k, Lower(meta.table[meta.column].type))

(***************************************************************************)
(* SpecConn: the life of connectors in a session: DatabaseFactory creates  *)
(* them, the explorer page connects once, pages call ensure_connected      *)
(* before their operations and close() ends the session.  A handle is a    *)
(* database connection together with the cursor opened on it.              *)
(***************************************************************************)
\* connectors created in one session
MaxConnectors == 1
\* database handles opened in one session
MaxHandles == 3

UpperLetters == <<"A", "B", "C", "D", "E", "F", "G", "H", "I", "J", "K", "L", "M",
                  "N", "O", "P", "Q", "R", "S", "T", "U", "V", "W", "X", "Y", "Z">>
LowerLetters == <<"a", "b", "c", "d", "e", "f", "g", "h", "i", "j", "k", "l", "m",
                  "n", "o", "p", "q", "r", "s", "t", "u", "v", "w", "x", "y", "z">>

\* str.lower() on a string given as the sequence of its characters
LowerCase(chars) ==
  [i \in 1..Len(chars) |->
     IF \E j \in 1..Len(UpperLetters) : UpperLetters[j] = chars[i]
     THEN LowerLetters[CHOOSE j \in 1..Len(UpperLetters) : UpperLetters[j] = chars[i]]
     ELSE chars[i]]

\* the strings handed to create_connector
DbTypeInputs ==
  {<<"m", "s", "s", "q", "l">>, <<"M", "S", "S", "Q", "L">>,
   <<"m", "y", "s", "q", "l">>, <<"M", "y", "S", "Q", "L">>,
   <<"p", "o", "s", "t", "g", "r", "e", "s">>, <<"P", "o", "s", "t", "g", "r", "e", "s">>,
   <<"p", "o", "s", "t", "g", "r", "e", "s", "q", "l">>,
   <<"P", "o", "s", "t", "g", "r", "e", "S", "Q", "L">>,
   <<"o", "r", "a", "c", "l", "e">>, <<"O", "R", "A", "C", "L", "E">>,
   <<"s", "q", "l", "i", "t", "e">>, <<"p", "o", "s", "t", "g", "r", "e">>,
   <<"o", "r", "a", "c", "l", "e", " ">>, <<>>}

\* a faulty create_connector: db_type compared without .lower()
create_connector_case_sensitive(db_type) ==
  CASE db_type = <<"m", "s", "s", "q", "l">> -> Ok("mssql")
    [] db_type = <<"m", "y", "s", "q", "l">> -> Ok("mysql")
    [] db_type \in {<<"p", "o", "s", "t", "g", "r", "e", "s">>,
                    <<"p", "o", "s", "t", "g", "r", "e", "s", "q", "l">>} -> Ok("postgres")
    [] db_type = <<"o", "r", "a", "c", "l", "e">> -> Ok("oracle")
    [] OTHER -> Raise("ValueError")

\* DatabaseFactory.create_connector: the class of the connector it
\* constructs, or ValueError
create_connector(db_type) ==
  CASE LowerCase(db_type) = <<"m", "s", "s", "q", "l">> -> Ok("mssql")
    [] LowerCase(db_type) = <<"m", "y", "s", "q", "l">> -> Ok("mysql")
    [] LowerCase(db_type) \in {<<"p", "o", "s", "t", "g", "r", "e", "s">>,
                               <<"p", "o", "s", "t", "g", "r", "e", "s", "q", "l">>} -> Ok("postgres")
    [] LowerCase(db_type) = <<"o", "r", "a", "c", "l", "e">> -> Ok("oracle")
    [] OTHER -> Raise("ValueError")

\* DatabaseConnector.__init__: self.connection = None, self.cursor = None
\* (0 stands for None, a number for the handle the attribute refers to)
NewConnector(backend) == [backend |-> backend, connection |-> 0, cursor |-> 0]

\* a handle nobody has opened yet
UnusedHandle == [conn |-> "unused", cur |-> "unused", owner |-> 0, txn_aborted |-> FALSE]

\* what the last call did
NoCall ==
  [op |-> "", c |-> 0, db_type |-> <<>>, raised |-> "", probe |-> "", connects |-> 0,
   before |-> NewConnector(""), attempts |-> <<>>, cursor_error |-> FALSE]

InitConn ==
  /\ run = IdleRun
  /\ chk = IdleChk
  /\ tck = IdleTck
  /\ meta = IdleMeta
  /\ mem = IdleMem
  /\ fn = IdleFn
  /\ con = [st |-> "session", cs |-> <<>>, hs |-> [h \in 1..MaxHandles |-> UnusedHandle],
            last |-> NoCall]

\* connector = DatabaseFactory.create_connector(db_type)
CreateConnectorUpTo(n) ==
  /\ con.st = "session"
  /\ Len(con.cs) < n
  /\ \E db_type \in DbTypeInputs :
       LET a == create_connector(db_type)
       IN con' = [con EXCEPT
                    !.cs = IF a.raise THEN @ ELSE Append(@, NewConnector(a.val)),
                    !.last = [NoCall EXCEPT !.op = "create_connector", !.db_type = db_type,
                                            !.c = IF a.raise THEN 0 ELSE Len(con.cs) + 1,
                                            !.raised = a.msg]]
  /\ UNCHANGED <<run, chk, tck, meta, mem, fn>>

\* DatabaseFactory.create_connector(db_type) of a page of the session
CreateConnector == CreateConnectorUpTo(MaxConnectors)

\* the lowest handle not opened yet (0 when all are used)
FreeHandle(hs) ==
  IF \E h \in DOMAIN hs : hs[h].conn = "unused"
  THEN CHOOSE h \in DOMAIN hs : hs[h].conn = "unused" /\ \A g \in DOMAIN hs : hs[g].conn = "unused" => h <= g
  ELSE 0

\* connect(config) of connector c: the driver's connect() either raises, and
\* the method raises Exception("Error connecting ..."), or returns a new
\* connection, on which a cursor is opened; both are assigned to the
\* attributes.  What the attributes referred to before is not touched.
connect(cs, hs, c, succeeds) ==
  IF succeeds
  THEN [cs |-> [cs EXCEPT ![c].connection = FreeHandle(hs), ![c].cursor = FreeHandle(hs)],
        hs |-> [hs EXCEPT ![FreeHandle(hs)] =
                  [conn |-> "live", cur |-> "open", owner |-> c, txn_aborted |-> FALSE]],
        raised |-> ""]
  ELSE [cs |-> cs, hs |-> hs, raised |-> "ConnectError"]

\* self.cursor.execute("SELECT 1"): "ok", or the exception it raises
\*   AttributeError  self.cursor is None
\*   DriverError     the cursor or its connection is closed, the server has
\*                   dropped the connection, or (psycopg2) the transaction
\*                   is in the aborted state
probe(connector, hs) ==
  IF connector.cursor = 0 THEN "AttributeError"
  ELSE IF \/ hs[connector.cursor].cur # "open"
          \/ hs[connector.cursor].conn # "live"
          \/ hs[connector.cursor].txn_aborted
       THEN "DriverError"
  ELSE "ok"

\* the except clause of ensure_connected:  except:  on postgres, mysql and
\* oracle,  except pyodbc.Error:  on mssql
ProbeErrorCaught(backend, exc) == backend = "mssql" => exc = "DriverError"

\* a faulty close(): cursor and connection closed inside one try block
close_in_one_try(connector, hs, cursor_error) ==
  [hs |-> [h \in DOMAIN hs |->
             [hs[h] EXCEPT !.cur = IF h = connector.cursor THEN "closed" ELSE @,
                           !.conn = IF h = connector.connection /\ ~cursor_error THEN "closed" ELSE @]],
   attempts |-> (IF connector.cursor # 0 THEN <<"cursor">> ELSE <<>>) \o
                (IF connector.connection # 0 /\ ~cursor_error THEN <<"connection">> ELSE <<>>),
   raised |-> ""]

\* close(): the cursor in a try of its own, then the connection in a try of
\* its own; each except clause logs a warning.  cursor_error: cursor.close()
\* raised
close(connector, hs, cursor_error) ==
  [hs |-> [h \in DOMAIN hs |->
             [hs[h] EXCEPT !.cur = IF h = connector.cursor THEN "closed" ELSE @,
                           !.conn = IF h = connector.connection THEN "closed" ELSE @]],
   attempts |-> (IF connector.cursor # 0 THEN <<"cursor">> ELSE <<>>) \o
                (IF connector.connection # 0 THEN <<"connection">> ELSE <<>>),
   raised |-> ""]

\* connector.connect(db_config) of the explorer page, right after the
\* connector was created
Connect ==
  /\ con.st = "session"
  /\ \E c \in 1..Len(con.cs), succeeds \in BOOLEAN :
       /\ con.cs[c].connection = 0
       /\ succeeds => FreeHandle(con.hs) # 0
       /\ LET r == connect(con.cs, con.hs, c, succeeds)
          IN con' = [con EXCEPT !.cs = r.cs, !.hs = r.hs,
                                !.last = [NoCall EXCEPT !.op = "connect", !.c = c,
                                                        !.raised = r.raised, !.connects = 1,
                                                        !.before = con.cs[c]]]
  /\ UNCHANGED <<run, chk, tck, meta, mem, fn>>

\* connector.ensure_connected(db_config)
EnsureConnected ==
  /\ con.st = "session"
  /\ \E c \in 1..Len(con.cs), succeeds \in BOOLEAN :
       LET p == probe(con.cs[c], con.hs)
           call == [NoCall EXCEPT !.op = "ensure_connected", !.c = c, !.probe = p,
                                  !.before = con.cs[c]]
       IN IF p = "ok"
          THEN /\ succeeds
               /\ con' = [con EXCEPT !.last = call]
          ELSE IF ~ProbeErrorCaught(con.cs[c].backend, p)
          THEN /\ succeeds
               /\ con' = [con EXCEPT !.last = [call EXCEPT !.raised = p]]
          ELSE /\ succeeds => FreeHandle(con.hs) # 0
               /\ LET r == connect(con.cs, con.hs, c, succeeds)
                  IN con' = [con EXCEPT !.cs = r.cs, !.hs = r.hs,
                                        !.last = [call EXCEPT !.raised = r.raised, !.connects = 1]]
  /\ UNCHANGED <<run, chk, tck, meta, mem, fn>>

\* connector.close()
Close ==
  /\ con.st = "session"
  /\ \E c \in 1..Len(con.cs), cursor_error \in BOOLEAN :
       /\ cursor_error => /\ con.cs[c].cursor # 0
                          /\ \/ con.hs[con.cs[c].cursor].cur = "closed"
                             \/ con.hs[con.cs[c].cursor].conn # "live"
       /\ LET r == close(con.cs[c], con.hs, cursor_error)
          IN con' = [con EXCEPT !.hs = r.hs,
                                !.last = [NoCall EXCEPT !.op = "close", !.c = c,
                                                        !.raised = r.raised, !.attempts = r.attempts,
                                                        !.before = con.cs[c],
                                                        !.cursor_error = cursor_error]]
  /\ UNCHANGED <<run, chk, tck, meta, mem, fn>>

\* the server or the network drops a connection while the page is idle
ServerDrops ==
  /\ con.st = "session"
  /\ \E h \in 1..MaxHandles :
       /\ con.hs[h].conn = "live"
       /\ con' = [con EXCEPT !.hs[h].conn = "dead"]
  /\ UNCHANGED <<run, chk, tck, meta, mem, fn>>

\* a statement of a check fails on a PostgreSQL connection: psycopg2 leaves
\* the transaction aborted, and no method of the connector rolls back
StatementFails ==
  /\ con.st = "session"
  /\ \E h \in 1..MaxHandles :
       /\ con.hs[h].conn = "live" /\ con.hs[h].cur = "open" /\ ~con.hs[h].txn_aborted
       /\ con.cs[con.hs[h].owner].backend = "postgres"
       /\ con' = [con EXCEPT !.hs[h].txn_aborted = TRUE]
  /\ UNCHANGED <<run, chk, tck, meta, mem, fn>>

NextConn == CreateConnector \/ Connect \/ EnsureConnected \/ Close \/ ServerDrops \/ StatementFails

SpecConn == InitConn /\ [][NextConn]_vars

\* ---- the factory alone: create_connector called MaxCreated times ----
MaxCreated == 3

CreateConnectors == CreateConnectorUpTo(MaxCreated)

SpecFactory == InitConn /\ [][CreateConnectors]_vars

\* C14: after ensure_connected, from every prior state of the connector: when
\* the probe succeeded, connect was not called and connection and cursor are
\* the ones held before; when the probe failed, for whatever reason, connect
\* was called once and the failure of the probe was not raised.
C14_EnsureConnected ==
  con.st = "session" /\ con.last.op = "ensure_connected" =>
    IF con.last.probe = "ok"
    THEN /\ con.last.connects = 0
         /\ con.last.raised = ""
         /\ con.cs[con.last.c] = con.last.before
    ELSE /\ con.last.connects = 1
         /\ con.last.raised # con.last.probe

\* C15: close() raises nothing; it attempts the cursor before the
\* connection, and attempts the connection also when closing the cursor
\* raised; the connection it was called on ends closed.
C15_CloseNeverRaises ==
  con.st = "session" /\ con.last.op = "close" =>
    /\ con.last.raised = ""
    /\ con.last.before.cursor # 0 /\ con.last.before.connection # 0 =>
         con.last.attempts = <<"cursor", "connection">>
    /\ con.last.before.connection # 0 =>
         /\ con.last.attempts[Len(con.last.attempts)] = "connection"
         /\ con.hs[con.last.before.connection].conn = "closed"

\* close() was called on a connector whose cursor raised on closing, and the
\* connection was closed all the same
C15_Witness ==
  /\ con.st = "session" /\ con.last.op = "close"
  /\ con.last.cursor_error
  /\ con.last.raised = ""
  /\ con.last.attempts = <<"cursor", "connection">>
  /\ con.hs[con.last.before.connection].conn = "closed"

\* the handles of connector c that were opened and not closed
OpenHandles(c) ==
  {h \in 1..MaxHandles : con.hs[h].owner = c /\ con.hs[h].conn \in {"live", "dead"}}

\* C16: a connector has at most one open handle in every reachable state,
\* and none after close().
C16_SingleHandle ==
  con.st = "session" =>
    \A c \in 1..Len(con.cs) :
      /\ Cardinality(OpenHandles(c)) <= 1
      /\ con.last.op = "close" /\ con.last.c = c => OpenHandles(c) = {}

\* the two strings are equal up to the case of their letters
SameIgnoringCase(a, b) ==
  /\ Len(a) = Len(b)
  /\ \A i \in 1..Len(a) :
       \/ a[i] = b[i]
       \/ \E j \in 1..Len(UpperLetters) :
            {a[i], b[i]} = {UpperLetters[j], LowerLetters[j]}

\* the connector the documentation names for a backend string ("" for none)
DocumentedConnector(db_type) ==
  CASE SameIgnoringCase(db_type, <<"m","s","s","q","l">>) -> "mssql"
    [] SameIgnoringCase(db_type, <<"m","y","s","q","l">>) -> "mysql"
    [] SameIgnoringCase(db_type, <<"p","o","s","t","g","r","e","s">>) -> "postgres"
    [] SameIgnoringCase(db_type, <<"p","o","s","t","g","r","e","s","q","l">>) -> "postgres"
    [] SameIgnoringCase(db_type, <<"o","r","a","c","l","e">>) -> "oracle"
    [] OTHER -> ""

\* C17: create_connector returns, for the five backend names in any case, a
\* new connector of the named backend with connection and cursor None, and
\* raises ValueError for every other string; it attempts no connection and
\* its answer does not depend on the connectors created before.
C17_ConnectorFactory ==
  con.st = "session" /\ con.last.op = "create_connector" =>
    /\ con.last.connects = 0
    /\ IF DocumentedConnector(con.last.db_type) = ""
       THEN con.last.raised = "ValueError" /\ con.last.c = 0
       ELSE /\ con.last.raised = ""
            /\ con.last.c = Len(con.cs)
            /\ con.cs[con.last.c] = NewConnector(DocumentedConnector(con.last.db_type))

\* a second connector was created from a backend name in mixed case
C17_Witness ==
  /\ con.st = "session" /\ con.last.op = "create_connector"
  /\ con.last.c = 2
  /\ con.last.db_type = <<"P","o","s","t","g","r","e","S","Q","L">>
  /\ con.cs[2] = NewConnector("postgres")

(***************************************************************************)
(* The memoized catalog calls of quality.py.  Every session works on the   *)
(* table public.customers of its own database through its own connector;   *)
(* the memo of st.cache_data is shared by all sessions of the process and  *)
(* has neither a ttl nor a clear() call.  A database is the sequence of    *)
(* the values of the checked column, one entry per row.                    *)
(***************************************************************************)
\* sessions, each with a connector of its own
MaxSessions == 2
\* rows a table holds at most
MaxStored == 2

StoredValues == {None, Some(1)}

StoredColumns == UNION {[1..n -> StoredValues] : n \in 0..MaxStored}

\* the key st.cache_data computes for a call: the hash of the arguments
\* whose parameter name does not start with an underscore
CacheKey(connector, schema, table) == <<schema, table>>

\* get_cached_table_analysis(_connector, schema, table): the memoized
\* answer when the key is in the memo, else the answer of
\* _connector.get_table_analysis (row_count = SELECT COUNT(*)), which is
\* stored under the key.  origin: the connector the answer was computed by
get_cached_table_analysis(cache, db, connector, schema, table) ==
  LET key == CacheKey(connector, schema, table)
      hit == {e \in cache : e.key = key}
      computed == [key |-> key, row_count |-> Len(db[connector]), origin |-> connector]
  IN IF hit # {}
     THEN [cache |-> cache, analysis |-> CHOOSE e \in hit : TRUE]
     ELSE [cache |-> cache \cup {computed}, analysis |-> computed]

NoReport == [op |-> "", c |-> 0, total_rows |-> 0, origin |-> 0, null_count |-> 0, distinct_count |-> 0]

InitSession ==
  /\ run = IdleRun /\ chk = IdleChk /\ tck = IdleTck /\ meta = IdleMeta /\ con = IdleCon
  /\ fn = IdleFn
  /\ \E db \in [1..MaxSessions -> StoredColumns] :
       mem = [st |-> "session", db |-> db, cache |-> {}, last |-> NoReport]

\* a page of session c asks for the analysis of the table
GetCachedTableAnalysis ==
  /\ mem.st = "session"
  /\ \E c \in 1..MaxSessions :
       LET r == get_cached_table_analysis(mem.cache, mem.db, c, "public", "customers")
       IN mem' = [mem EXCEPT !.cache = r.cache,
                             !.last = [NoReport EXCEPT !.op = "analysis", !.c = c,
                                                       !.total_rows = r.analysis.row_count,
                                                       !.origin = r.analysis.origin]]
  /\ UNCHANGED <<run, chk, tck, meta, con, fn>>

\* run_quality_tests of session c with null_check and distinct_check
\* selected: total_rows from the memoized analysis, the counts from the
\* connector's queries
RunQualityTests ==
  /\ mem.st = "session"
  /\ \E c \in 1..MaxSessions :
       LET r == get_cached_table_analysis(mem.cache, mem.db, c, "public", "customers")
       IN mem' = [mem EXCEPT !.cache = r.cache,
                             !.last = [op |-> "quality", c |-> c,
                                       total_rows |-> r.analysis.row_count,
                                       origin |-> r.analysis.origin,
                                       null_count |-> get_null_count("postgres", mem.db[c]),
                                       distinct_count |-> get_distinct_count("postgres", mem.db[c])]]
  /\ UNCHANGED <<run, chk, tck, meta, con, fn>>

\* another client inserts a row into the table of session c
InsertRow ==
  /\ mem.st = "session"
  /\ \E c \in 1..MaxSessions, v \in StoredValues :
       /\ Len(mem.db[c]) < MaxStored
       /\ mem' = [mem EXCEPT !.db[c] = Append(@, v), !.last = NoReport]
  /\ UNCHANGED <<run, chk, tck, meta, con, fn>>

\* another client deletes a row of the table of session c
DeleteRow ==
  /\ mem.st = "session"
  /\ \E c \in 1..MaxSessions :
       \E i \in 1..Len(mem.db[c]) :
         mem' = [mem EXCEPT !.db[c] = SubSeq(@, 1, i - 1) \o SubSeq(@, i + 1, Len(@)),
                            !.last = NoReport]
  /\ UNCHANGED <<run, chk, tck, meta, con, fn>>

NextSession == GetCachedTableAnalysis \/ RunQualityTests \/ InsertRow \/ DeleteRow

SpecSession == InitSession /\ [][NextSession]_vars

\* C18: in a report row the null count and the distinct count are at most
\* total_rows, whatever analysis calls, inserts and deletes came before.
C18_CountsWithinTotalRows ==
  mem.st = "session" /\ mem.last.op = "quality" =>
    /\ mem.last.null_count <= mem.last.total_rows
    /\ mem.last.distinct_count <= mem.last.total_rows

\* C19: the analysis a session is given was computed through that
\* session's own connector.
C19_CacheKeyedByConnector ==
  mem.st = "session" /\ mem.last.op \in {"analysis", "quality"} =>
    mem.last.origin = mem.last.c

(***************************************************************************)
(* SpecSql: the SQL text of the check primitives that take a value the     *)
(* user entered.  A statement is a sequence of tokens: text of the         *)
(* f-string, an identifier put into the f-string, a user value put into    *)
(* the f-string ("interp"), or a placeholder whose value is handed to      *)
(* cursor.execute as a bind parameter ("bind").                            *)
(***************************************************************************)
Sql(s) == [t |-> "sql", s |-> s]
Ident(s) == [t |-> "ident", s |-> s]
Interp(slot) == [t |-> "interp", s |-> slot]
Bind(slot) == [t |-> "bind", s |-> slot]

\* "{column}", [{column}] or the MySQL form between two backticks
Quoted(backend, name) ==
  CASE backend = "mssql" -> <<Sql("["), Ident(name), Sql("]")>>
    [] backend = "mysql" -> <<Sql("BACKTICK"), Ident(name), Sql("BACKTICK")>>
    [] OTHER -> <<Sql("\""), Ident(name), Sql("\"")>>

\* primitives that take a user value, and the connectors that define them
ParamPrimitives(backend) ==
  {"get_min_max_violations", "get_char_length_violations",
   "get_allowed_values_violation_count", "get_date_range_violation_count",
   "get_special_char_violation_count", "get_regex_pattern_violation_count"}
  \cup (IF backend = "postgres" THEN {"get_date_format_violation_count"} ELSE {})

\* LENGTH / LEN / CHAR_LENGTH
LengthFunction(backend) ==
  CASE backend = "mssql" -> "LEN(" [] backend = "mysql" -> "CHAR_LENGTH(" [] OTHER -> "LENGTH("

\* the operator of the pattern primitives (Oracle calls REGEXP_LIKE)
NotMatchOperator(backend) ==
  CASE backend = "postgres" -> " !~ '"
    [] backend = "mssql" -> " NOT LIKE '"
    [] OTHER -> " NOT REGEXP '"

\* an interpolated date literal
DateLiteral(backend, slot) ==
  CASE backend = "postgres" -> <<Sql("DATE '"), Interp(slot), Sql("'")>>
    [] backend = "oracle" -> <<Sql("TO_DATE('"), Interp(slot), Sql("', 'YYYY-MM-DD')")>>
    [] OTHER -> <<Sql("'"), Interp(slot), Sql("'")>>

\* the WHERE clause the primitive writes for column c
WhereClause(backend, primitive, c) ==
  CASE primitive = "get_min_max_violations" ->
         Quoted(backend, c) \o <<Sql(" < "), Interp("p1"), Sql(" OR ")>> \o
         Quoted(backend, c) \o <<Sql(" > "), Interp("p2")>>
    [] primitive = "get_char_length_violations" ->
         <<Sql(LengthFunction(backend))>> \o Quoted(backend, c) \o
         <<Sql(") < "), Interp("p1"), Sql(" OR "), Sql(LengthFunction(backend))>> \o
         Quoted(backend, c) \o <<Sql(") > "), Interp("p2")>>
    [] primitive = "get_allowed_values_violation_count" ->
         Quoted(backend, c) \o <<Sql(" IS NOT NULL AND ")>> \o Quoted(backend, c) \o
         <<Sql(" NOT IN ('"), Interp("p1"), Sql("', '"), Interp("p2"), Sql("')")>>
    [] primitive = "get_date_range_violation_count" ->
         Quoted(backend, c) \o <<Sql(" < ")>> \o DateLiteral(backend, "p1") \o <<Sql(" OR ")>> \o
         Quoted(backend, c) \o <<Sql(" > ")>> \o DateLiteral(backend, "p2")
    [] primitive = "get_date_format_violation_count" ->
         <<Sql("NOT ")>> \o Quoted(backend, c) \o <<Sql(" ~ "), Bind("p1")>>
    [] primitive \notin {"get_min_max_violations", "get_char_length_violations",
                         "get_allowed_values_violation_count", "get_date_range_violation_count",
                         "get_date_format_violation_count"} /\ backend = "oracle" ->
         <<Sql("REGEXP_LIKE(")>> \o Quoted(backend, c) \o <<Sql(", '"), Interp("p1"), Sql("')")>>
    [] OTHER ->
         Quoted(backend, c) \o <<Sql(NotMatchOperator(backend)), Interp("p1"), Sql("'")>>

\* the statement of a primitive on schema.table
Statement(backend, primitive, c) ==
  <<Sql("SELECT ... FROM ")>> \o Quoted(backend, "schema") \o <<Sql(".")>> \o
  Quoted(backend, "table") \o <<Sql(" WHERE ")>> \o WhereClause(backend, primitive, c)

\* what reaches cursor.execute: the text after the f-string is evaluated,
\* and the tuple of bind parameters
cursor_execute(statement, params) ==
  [text |-> [k \in DOMAIN statement |->
               CASE statement[k].t = "interp" -> params[statement[k].s]
                 [] statement[k].t = "bind" -> "%s"
                 [] OTHER -> statement[k].s],
   binds |-> {params[statement[k].s] : k \in {k \in DOMAIN statement : statement[k].t = "bind"}}]

\* values the user enters
ParamStrings == {"1", "9", "x' OR '1'='1"}

ParamSets == [p1 : ParamStrings, p2 : ParamStrings]

SlotsOf(primitive) ==
  IF primitive \in {"get_special_char_violation_count", "get_regex_pattern_violation_count",
                    "get_date_format_violation_count"}
  THEN {"p1"} ELSE {"p1", "p2"}

NoStatement == [text |-> <<>>, binds |-> {}]

InitSql ==
  /\ run = IdleRun /\ chk = IdleChk /\ tck = IdleTck /\ meta = IdleMeta /\ con = IdleCon
  /\ mem = IdleMem
  /\ \E backend \in Backends, c \in {"email", "amount"}, p \in ParamSets, q \in ParamSets :
       \E primitive \in ParamPrimitives(backend) :
         /\ \A slot \in {"p1", "p2"} \ SlotsOf(primitive) : p[slot] = "1" /\ q[slot] = "1"
         /\ fn = [st |-> "sql", backend |-> backend, primitive |-> primitive, column |-> c,
                  p |-> p, q |-> q, runs |-> 0, first |-> NoStatement, second |-> NoStatement]

\* the primitive called with the user's values p
FirstRun ==
  /\ fn.st = "sql" /\ fn.runs = 0
  /\ fn' = [fn EXCEPT !.runs = 1,
                      !.first = cursor_execute(Statement(fn.backend, fn.primitive, fn.column), fn.p)]
  /\ UNCHANGED <<run, chk, tck, meta, con, mem>>

\* the same primitive called again with the values q
SecondRun ==
  /\ fn.st = "sql" /\ fn.runs = 1
  /\ fn' = [fn EXCEPT !.runs = 2,
                      !.second = cursor_execute(Statement(fn.backend, fn.primitive, fn.column), fn.q)]
  /\ UNCHANGED <<run, chk, tck, meta, con, mem>>

NextSql == FirstRun \/ SecondRun

SpecSql == InitSql /\ [][NextSql]_vars

\* C21: two runs of a primitive that differ only in the user's values
\* execute the same SQL text, and every value reaches the driver as a bind
\* parameter
C21_ValuesAreBound ==
  fn.st = "sql" /\ fn.runs = 2 =>
    /\ fn.first.text = fn.second.text
    /\ \A slot \in SlotsOf(fn.primitive) :
         fn.p[slot] \in fn.first.binds /\ fn.q[slot] \in fn.second.binds

(***************************************************************************)
(* SpecFormat: the eng_numeric_format and tr_numeric_format checks of a    *)
(* decimal column.  Both predicates look for a comma in the text the       *)
(* database converts the number to.                                        *)
(***************************************************************************)
\* decimal numbers stored in the column: integer part i, one fraction digit f
DecimalVals == {[i |-> 1, f |-> 0], [i |-> 1, f |-> 5]}

DigitChar(d) == <<"0", "1", "2", "3", "4", "5", "6", "7", "8", "9">>[d + 1]

\* the decimal character of the conversion: '.' for ::TEXT, CONVERT(VARCHAR, ..)
\* and the implicit cast of MySQL; TO_CHAR of Oracle writes the decimal
\* character of the session's NLS_NUMERIC_CHARACTERS
DecimalChars(backend) == IF backend = "oracle" THEN {".", ","} ELSE {"."}

\* "{column}"::TEXT, CONVERT(VARCHAR, [{column}]), TO_CHAR("{column}")
to_text(dec, v) ==
  <<DigitChar(v.i)>> \o (IF v.f = 0 THEN <<>> ELSE <<dec, DigitChar(v.f)>>)

\* LIKE '%,%'  and  INSTR(.., ',') > 0
HasComma(text) == \E k \in 1..Len(text) : text[k] = ","

\* rows of  col IS NOT NULL AND <text> LIKE '%,%'
EngRows(dec, col) == {i \in NonNullRows(col) : HasComma(to_text(dec, col[i].v))}

\* rows of  col IS NOT NULL AND <text> NOT LIKE '%,%'
TrRows(dec, col) == {i \in NonNullRows(col) : ~HasComma(to_text(dec, col[i].v))}

get_eng_numeric_format_violation_count(backend, dec, col) == Cardinality(EngRows(dec, col))

\* a faulty TR count:  NOT (col IS NOT NULL AND <text> LIKE '%,%')
get_tr_numeric_format_violation_count_not_eng(backend, dec, col) ==
  Cardinality(RowIds(col) \ EngRows(dec, col))

get_tr_numeric_format_violation_count(backend, dec, col) == Cardinality(TrRows(dec, col))

InitFormat ==
  /\ run = IdleRun /\ chk = IdleChk /\ tck = IdleTck /\ meta = IdleMeta /\ con = IdleCon
  /\ mem = IdleMem
  /\ \E backend \in Backends, n \in 0..MaxRows :
       \E dec \in DecimalChars(backend),
          col \in [1..n -> {None} \cup {Some(v) : v \in DecimalVals}] :
         fn = [st |-> "format", backend |-> backend, dec |-> dec, col |-> col, done |-> FALSE,
               eng |-> NotSelected("eng_numeric_format"), tr |-> NotSelected("tr_numeric_format")]

\* the eng_numeric_format and tr_numeric_format blocks of run_quality_tests,
\* in this order, for the column; the samplers repeat the predicate of the
\* count, and their limit of 100 rows exceeds every table explored
RunNumericFormatChecks ==
  /\ fn.st = "format" /\ ~fn.done
  /\ fn' = [fn EXCEPT
              !.done = TRUE,
              !.eng = CountCheckBlock("eng_numeric_format",
                                      Ok(get_eng_numeric_format_violation_count(fn.backend, fn.dec, fn.col)),
                                      Ok(EngRows(fn.dec, fn.col))),
              !.tr = CountCheckBlock("tr_numeric_format",
                                     Ok(get_tr_numeric_format_violation_count(fn.backend, fn.dec, fn.col)),
                                     Ok(TrRows(fn.dec, fn.col)))]
  /\ UNCHANGED <<run, chk, tck, meta, con, mem>>

SpecFormat == InitFormat /\ [][RunNumericFormatChecks]_vars

\* the rows a check reports: those of its sample, none when it passed
ReportedRows(result) == IF result.sample = None THEN {} ELSE result.sample.v

\* C30: the ENG and the TR violation count add up to the number of non-null
\* values, every non-null row is reported by exactly one of the two checks
\* and no NULL row by either; with a non-null value in the column the two
\* checks are not both Pass.
C30_EngTrComplementary ==
  fn.st = "format" /\ fn.done =>
    /\ fn.eng.count.v + fn.tr.count.v = Cardinality(NonNullRows(fn.col))
    /\ ReportedRows(fn.eng) \cap ReportedRows(fn.tr) = {}
    /\ ReportedRows(fn.eng) \cup ReportedRows(fn.tr) = NonNullRows(fn.col)
    /\ NonNullRows(fn.col) # {} => ~(fn.eng.pass = PASS_ICON /\ fn.tr.pass = PASS_ICON)

\* both checks ran on a column with a NULL, a value written with a comma and
\* a value written without one
C30_Witness ==
  /\ fn.st = "format" /\ fn.done
  /\ NullRows(fn.col) # {}
  /\ fn.eng.count.v = 1 /\ fn.tr.count.v = 1
  /\ fn.eng.pass = FAIL_ICON /\ fn.tr.pass = FAIL_ICON

\* ---------------------------------------------------------------------------
\* SpecPattern: the regex_pattern check on a text column
\* ---------------------------------------------------------------------------

PatternChars == {"1", "a"}

\* the text values of the column: the strings of one or two characters
PatternVals == {<<c>> : c \in PatternChars} \cup {<<c, d>> : c \in PatternChars, d \in PatternChars}

\* the patterns the user types: digits only, and "contains an a"
Patterns == {"^[0-9]+$", "a"}

IsDigit(c) == c = "1"

\* a POSIX / ICU / Oracle regular expression finds a match in the value
\* (~, REGEXP and REGEXP_LIKE search the value, the pattern anchors itself)
RegexMatch(pattern, text) ==
  CASE pattern = "^[0-9]+$" -> Len(text) > 0 /\ \A k \in 1..Len(text) : IsDigit(text[k])
    [] pattern = "a"        -> \E k \in 1..Len(text) : text[k] = "a"

\* T-SQL LIKE with the same string as its pattern: the whole value has to
\* match, [0-9] is one digit, every other character of the two patterns
\* ('^', '+', '$', 'a') stands for itself
LikeMatch(pattern, text) ==
  CASE pattern = "^[0-9]+$" -> /\ Len(text) = 4
                               /\ text[1] = "^" /\ IsDigit(text[2])
                               /\ text[3] = "+" /\ text[4] = "$"
    [] pattern = "a"        -> text = <<"a">>

\* the rows selected by the WHERE clause of get_regex_pattern_violation_count
RegexPatternRows(backend, col, pattern) ==
  CASE backend = "postgres" -> {i \in NonNullRows(col) : ~RegexMatch(pattern, col[i].v)}
    [] backend = "mysql"    -> {i \in NonNullRows(col) : ~RegexMatch(pattern, col[i].v)}
    [] backend = "mssql"    -> {i \in NonNullRows(col) : ~LikeMatch(pattern, col[i].v)}
    [] backend = "oracle"   -> {i \in NonNullRows(col) : RegexMatch(pattern, col[i].v)}

get_regex_pattern_violation_count(backend, col, pattern) ==
  Cardinality(RegexPatternRows(backend, col, pattern))

\* the sampler repeats the pattern clause of the count; SQL Server's and
\* MySQL's leave out IS NOT NULL, which a NULL does not pass either way
get_regex_pattern_violations(backend, col, pattern) ==
  RegexPatternRows(backend, col, pattern)

InitPattern ==
  /\ run = IdleRun /\ chk = IdleChk /\ tck = IdleTck /\ meta = IdleMeta /\ con = IdleCon
  /\ mem = IdleMem
  /\ \E backend \in Backends, pattern \in Patterns, n \in 0..MaxRows :
       \E col \in [1..n -> {None} \cup {Some(v) : v \in PatternVals}] :
         fn = [st |-> "pattern", backend |-> backend, pattern |-> pattern, col |-> col,
               done |-> FALSE, result |-> NotSelected("regex_pattern")]

\* the regex_pattern block of run_quality_tests for the column
RunRegexPattern ==
  /\ fn.st = "pattern" /\ ~fn.done
  /\ fn' = [fn EXCEPT
              !.done = TRUE,
              !.result = CountCheckBlock("regex_pattern",
                           Ok(get_regex_pattern_violation_count(fn.backend, fn.col, fn.pattern)),
                           Ok(get_regex_pattern_violations(fn.backend, fn.col, fn.pattern)))]
  /\ UNCHANGED <<run, chk, tck, meta, con, mem>>

SpecPattern == InitPattern /\ [][RunRegexPattern]_vars

\* the non-null values of the column that do not match the pattern
NonMatchingRows(col, pattern) ==
  {i \in NonNullRows(col) : ~RegexMatch(pattern, col[i].v)}

\* C23: on every backend the regex_pattern count is the number of non-null
\* values that do not match the pattern, the check passes exactly when every
\* non-null value matches, and the sample holds only non-matching rows.
C23_RegexPatternMeaning ==
  fn.st = "pattern" /\ fn.done =>
    /\ fn.result.count = Some(Cardinality(NonMatchingRows(fn.col, fn.pattern)))
    /\ fn.result.pass = PASS_ICON <=> NonMatchingRows(fn.col, fn.pattern) = {}
    /\ ReportedRows(fn.result) \subseteq NonMatchingRows(fn.col, fn.pattern)

\* ---------------------------------------------------------------------------
\* SpecReconnect: the connection arguments of main and of the quality page
\* ---------------------------------------------------------------------------

\* the [database] section of profile.cfg: "" stands for an option left out;
\* type, dbname, user and password are given
Profiles ==
  [type : Backends, host : {"", "db1"}, port : {"", "5000"}, schema : {"", "sales"},
   dbname : {"d1", "d2"}]

Pop(config, key) == [k \in DOMAIN config \ {key} |-> config[k]]

GetOr(config, key, default) == IF key \in DOMAIN config THEN config[key] ELSE default

\* load_db_config: the six common keys with their defaults, and the database
\* name under 'database' for mysql, under 'dbname' otherwise
load_db_config(profile) ==
  LET db_type == profile.type
      common == [k \in {"type", "host", "port", "user", "password", "schema"} |->
                  CASE k = "type"     -> db_type
                    [] k = "host"     -> IF profile.host = "" THEN "localhost" ELSE profile.host
                    [] k = "port"     -> IF profile.port # "" THEN profile.port
                                         ELSE IF db_type = "mssql" THEN "1433" ELSE "3306"
                    [] k = "user"     -> "u"
                    [] k = "password" -> "p"
                    [] k = "schema"   -> IF profile.schema # "" THEN profile.schema
                                         ELSE IF db_type = "mssql" THEN "dbo" ELSE "public"]
  IN  IF db_type = "mysql" THEN ("database" :> profile.dbname) @@ common
      ELSE ("dbname" :> profile.dbname) @@ common

\* keywords psycopg2.connect accepts among those a configuration can hold
PsycopgKeywords == {"host", "port", "user", "password", "dbname", "database"}

NoDriverCall == [made |-> FALSE]

DriverCall(args, raise) == [made |-> TRUE, args |-> args, raise |-> raise]

\* connect(config) of the four connectors: the arguments the driver is
\* called with, and whether the call raises for its arguments
ConnectCall(backend, config) ==
  CASE backend = "postgres" ->
         DriverCall(config, ~(DOMAIN config \subseteq PsycopgKeywords))
    [] backend = "mssql" ->
         DriverCall([k \in {"host", "port", "dbname", "user", "password"} |-> config[k]], FALSE)
    [] backend = "mysql" ->
         DriverCall([k \in {"host", "port", "user", "password", "database"} |->
                      CASE k = "host"     -> GetOr(config, "host", "localhost")
                        [] k = "port"     -> GetOr(config, "port", "3306")
                        [] k = "user"     -> GetOr(config, "user", "None")
                        [] k = "password" -> GetOr(config, "password", "None")
                        [] k = "database" -> GetOr(config, "dbname", "None")], FALSE)
    [] backend = "oracle" ->
         DriverCall([k \in {"host", "port", "dbname", "user", "password"} |->
                      GetOr(config, k, "None")], FALSE)

EmptyConfig == [k \in {} |-> ""]

InitReconnect ==
  /\ run = IdleRun /\ chk = IdleChk /\ tck = IdleTck /\ meta = IdleMeta /\ con = IdleCon
  /\ mem = IdleMem
  /\ \E profile \in Profiles :
       fn = [st |-> "reconnect", profile |-> profile, backend |-> profile.type,
             passed |-> EmptyConfig, first |-> NoDriverCall,
             in_session |-> FALSE, db_config |-> EmptyConfig, again |-> NoDriverCall]

\* main of Database_Explorer: load the configuration, pop 'type' and 'schema',
\* connect with what is left
Main ==
  /\ fn.st = "reconnect" /\ ~fn.first.made
  /\ LET db_config == Pop(Pop(load_db_config(fn.profile), "type"), "schema")
     IN  fn' = [fn EXCEPT !.passed = db_config,
                          !.first = ConnectCall(fn.backend, db_config)]
  /\ UNCHANGED <<run, chk, tck, meta, con, mem>>

\* show_quality_tests_page: keep load_db_config() in the session unless it is
\* there, and ensure_connected(db_config), which calls connect(db_config)
\* when its probe statement fails
ShowQualityTestsPage ==
  /\ fn.st = "reconnect" /\ fn.first.made /\ ~fn.first.raise /\ ~fn.again.made
  /\ \E probe_fails \in BOOLEAN :
       LET db_config == IF fn.in_session THEN fn.db_config ELSE load_db_config(fn.profile)
       IN  fn' = [fn EXCEPT !.in_session = TRUE,
                            !.db_config = db_config,
                            !.again = IF probe_fails THEN ConnectCall(fn.backend, db_config)
                                      ELSE NoDriverCall]
  /\ UNCHANGED <<run, chk, tck, meta, con, mem>>

NextReconnect == Main \/ ShowQualityTestsPage

SpecReconnect == InitReconnect /\ [][NextReconnect]_vars

\* the key under which connect of the backend looks for the database name
DatabaseNameKey(backend) == "dbname"

\* C25: the configuration kept in the session by the quality page has the
\* key set of the configuration main passed to connect (no 'type', no
\* 'schema', the database name under the key the connector reads), and a
\* reconnect from the quality page calls the driver with the arguments of
\* the first connect.
C25_ReconnectSameArguments ==
  fn.st = "reconnect" /\ fn.in_session =>
    /\ DOMAIN fn.db_config = DOMAIN fn.passed
    /\ "type" \notin DOMAIN fn.db_config /\ "schema" \notin DOMAIN fn.db_config
    /\ DatabaseNameKey(fn.backend) \in DOMAIN fn.db_config
    /\ fn.again.made => fn.again = fn.first

\* ---------------------------------------------------------------------------
\* SpecDateFormat: date_format_to_regex on the formats a user can type
\* ---------------------------------------------------------------------------

\* strings are sequences of characters
MaxFormatLen == 3

FormatChars == {"Y", "M", "D", "-"}

\* the keys of mapping, in the order the dictionary literal lists them
MappingKeys == <<<<"Y", "Y", "Y", "Y">>, <<"Y", "Y">>, <<"M", "M">>, <<"M">>, <<"D", "D">>, <<"D">>>>

mapping ==
  (<<"Y", "Y", "Y", "Y">> :> <<"\\", "d", "{", "4", "}">>) @@
  (<<"Y", "Y">> :> <<"\\", "d", "{", "2", "}">>) @@
  (<<"M", "M">> :> <<"(", "0", "[", "1", "-", "9", "]", "|", "1", "[", "0", "-", "2", "]", ")">>) @@
  (<<"M">> :> <<"(", "[", "1", "-", "9", "]", "|", "1", "[", "0", "-", "2", "]", ")">>) @@
  (<<"D", "D">> :> <<"(", "0", "[", "1", "-", "9", "]", "|", "[", "1", "2", "]", "[", "0", "-", "9", "]", "|", "3", "[", "0", "1", "]", ")">>) @@
  (<<"D">> :> <<"(", "[", "1", "-", "9", "]", "|", "[", "1", "2", "]", "[", "0", "-", "9", "]", "|", "3", "[", "0", "1", "]", ")">>)

\* sorted(keys, key=len, reverse=True): a stable sort, so keys of one length
\* keep the order of the literal
RECURSIVE InsertByLen(_, _)
InsertByLen(sorted, key) ==
  IF sorted = <<>> THEN <<key>>
  ELSE IF Len(key) > Len(Head(sorted)) THEN <<key>> \o sorted
  ELSE <<Head(sorted)>> \o InsertByLen(Tail(sorted), key)

RECURSIVE SortedFrom(_, _)
SortedFrom(keys, sorted) ==
  IF keys = <<>> THEN sorted ELSE SortedFrom(Tail(keys), InsertByLen(sorted, Head(keys)))

\* a faulty order: sorted(keys, key=len), the shortest keys first
SortedKeysShortestFirst ==
  <<<<"M">>, <<"D">>, <<"Y", "Y">>, <<"M", "M">>, <<"D", "D">>, <<"Y", "Y", "Y", "Y">>>>

SortedKeys == SortedFrom(MappingKeys, <<>>)

StartsWith(s, key) == Len(s) >= Len(key) /\ SubSeq(s, 1, Len(key)) = key

\* str.replace(key, new): every non-overlapping occurrence, from the left
RECURSIVE Replace(_, _, _)
Replace(s, key, new) ==
  IF s = <<>> THEN <<>>
  ELSE IF StartsWith(s, key) THEN new \o Replace(SubSeq(s, Len(key) + 1, Len(s)), key, new)
  ELSE <<Head(s)>> \o Replace(Tail(s), key, new)

RECURSIVE ReplaceAll(_, _)
ReplaceAll(s, keys) ==
  IF keys = <<>> THEN s
  ELSE ReplaceAll(Replace(s, Head(keys), mapping[Head(keys)]), Tail(keys))

date_format_to_regex(format_str) == <<"^">> \o ReplaceAll(format_str, SortedKeys) \o <<"$">>

RECURSIVE SeqsUpTo(_, _)
SeqsUpTo(S, n) ==
  IF n = 0 THEN {<<>>}
  ELSE LET shorter == SeqsUpTo(S, n - 1)
       IN  shorter \cup {<<c>> \o s : c \in S, s \in {t \in shorter : Len(t) = n - 1}}

IsoDateFormat == <<"Y", "Y", "Y", "Y", "-", "M", "M", "-", "D", "D">>

\* the formats entered: every string of up to MaxFormatLen format characters,
\* and three formats of the usual length
DateFormats ==
  SeqsUpTo(FormatChars, MaxFormatLen) \cup {IsoDateFormat, <<"D", "D", "/", "M", "M", "/", "Y", "Y", "Y", "Y">>, <<"D", ".", "M", ".", "Y", "Y">>}

InitDateFormat ==
  /\ run = IdleRun /\ chk = IdleChk /\ tck = IdleTck /\ meta = IdleMeta /\ con = IdleCon
  /\ mem = IdleMem
  /\ \E format_str \in DateFormats :
       fn = [st |-> "date_format", format_str |-> format_str, done |-> FALSE, regex |-> <<>>]

ApplyDateFormatToRegex ==
  /\ fn.st = "date_format" /\ ~fn.done
  /\ fn' = [fn EXCEPT !.done = TRUE, !.regex = date_format_to_regex(fn.format_str)]
  /\ UNCHANGED <<run, chk, tck, meta, con, mem>>

SpecDateFormat == InitDateFormat /\ [][ApplyDateFormatToRegex]_vars

\* the longest token a string starts with, <<>> when it starts with none
LongestToken(s) ==
  LET starts == {k \in 1..Len(MappingKeys) : StartsWith(s, MappingKeys[k])}
  IN  IF starts = {} THEN <<>>
      ELSE MappingKeys[CHOOSE k \in starts :
                         \A j \in starts : Len(MappingKeys[j]) <= Len(MappingKeys[k])]

\* the format read once from the left, the longest token first at each
\* position, a token giving its expression and any other character itself
RECURSIVE TokenWise(_)
TokenWise(s) ==
  IF s = <<>> THEN <<>>
  ELSE LET token == LongestToken(s)
       IN  IF token = <<>> THEN <<Head(s)>> \o TokenWise(Tail(s))
           ELSE mapping[token] \o TokenWise(SubSeq(s, Len(token) + 1, Len(s)))

IsoDateRegex ==
  <<"^", "\\", "d", "{", "4", "}", "-", "(", "0", "[", "1", "-", "9", "]", "|", "1", "[", "0", "-", "2", "]", ")", "-", "(", "0", "[", "1", "-", "9", "]", "|", "[", "1", "2", "]", "[", "0", "-", "9", "]", "|", "3", "[", "0", "1", "]", ")", "$">>

\* C26: date_format_to_regex gives '^', the format with each token replaced
\* once, the longest token first and no replacement touching the text of
\* another, and '$'; 'YYYY-MM-DD' gives
\* '^\d{4}-(0[1-9]|1[0-2])-(0[1-9]|[12][0-9]|3[01])$', and a format without
\* 'Y', 'M' and 'D' gives '^' + the format + '$'.
C26_DateFormatToRegex ==
  fn.st = "date_format" /\ fn.done =>
    /\ fn.regex = <<"^">> \o TokenWise(fn.format_str) \o <<"$">>
    /\ fn.format_str = IsoDateFormat => fn.regex = IsoDateRegex
    /\ (\A k \in 1..Len(fn.format_str) : fn.format_str[k] \notin {"Y", "M", "D"})
         => fn.regex = <<"^">> \o fn.format_str \o <<"$">>

\* 'YYYY-MM-DD' was converted
C26_Witness ==
  fn.st = "date_format" /\ fn.done /\ fn.format_str = IsoDateFormat /\ fn.regex = IsoDateRegex

\* ---------------------------------------------------------------------------
\* SpecDetails: the counts of get_column_details
\* ---------------------------------------------------------------------------

\* COUNT(DISTINCT col): the distinct non-null values
DetailsDistinctCount(col) == Cardinality({col[i].v : i \in NonNullRows(col)})

\* SUM(CASE WHEN col IS NULL THEN 1 ELSE 0 END): NULL over an empty table
DetailsNullCount(col) == IF Len(col) = 0 THEN None ELSE Some(Cardinality(NullRows(col)))

\* SELECT col .. GROUP BY col: one group per distinct value, and one group for
\* all the NULLs
GroupBy(col) == {col[i] : i \in RowIds(col)}

GroupSize(col, g) == Cardinality({i \in RowIds(col) : col[i] = g})

\* SELECT COUNT(*) FROM (.. GROUP BY col HAVING COUNT(*) = 1)
DetailsUniqueCount(col) == Cardinality({g \in GroupBy(col) : GroupSize(col, g) = 1})

get_column_details(backend, col) ==
  [distinct_count |-> DetailsDistinctCount(col),
   null_count |-> DetailsNullCount(col),
   unique_count |-> DetailsUniqueCount(col)]

InitDetails ==
  /\ run = IdleRun /\ chk = IdleChk /\ tck = IdleTck /\ meta = IdleMeta /\ con = IdleCon
  /\ mem = IdleMem
  /\ \E backend \in Backends, n \in 0..MaxRows :
       \E col \in [1..n -> {None} \cup {Some(v) : v \in NumVals}] :
         fn = [st |-> "details", backend |-> backend, col |-> col, done |-> FALSE,
               details |-> [distinct_count |-> 0, null_count |-> None, unique_count |-> 0]]

GetColumnDetails ==
  /\ fn.st = "details" /\ ~fn.done
  /\ fn' = [fn EXCEPT !.done = TRUE, !.details = get_column_details(fn.backend, fn.col)]
  /\ UNCHANGED <<run, chk, tck, meta, con, mem>>

SpecDetails == InitDetails /\ [][GetColumnDetails]_vars

\* C27: get_column_details returns unique_count <= distinct_count for every
\* content of the column on every backend, also when the column holds
\* exactly one NULL.
C27_UniqueWithinDistinct ==
  fn.st = "details" /\ fn.done => fn.details.unique_count <= fn.details.distinct_count

\* ---------------------------------------------------------------------------
\* SpecSizes: the sizes of get_table_analysis
\* ---------------------------------------------------------------------------

\* storage is counted in pages of 8 KB, so that one megabyte is PagesPerMB pages
MaxPages == 4

PagesPerMB == 128

\* round(pages / PagesPerMB, 2), in hundredths of a megabyte; no size explored
\* lies halfway between two hundredths
Round2(pages) ==
  IF pages >= 0 THEN (pages * 200 + PagesPerMB) \div (2 * PagesPerMB)
  ELSE -((-pages * 200 + PagesPerMB) \div (2 * PagesPerMB))

\* what the catalog holds for the table: two page counts a and b,
\*   postgres  a = pg_total_relation_size, b = pg_relation_size     (b <= a)
\*   mssql     a = SUM(total_pages), b = SUM(used_pages)            (b <= a)
\*   mysql     a = data_length, b = index_length
\*   oracle    a = bytes of the TABLE segments, b = bytes of the INDEX
\*             segments that carry the name of the table
StorageOf(backend) ==
  {st \in [a : 0..MaxPages, b : 0..MaxPages] :
     backend \in {"postgres", "mssql"} => st.b <= st.a}

Sizes(total_size, table_size, index_size) ==
  [total_size |-> total_size, table_size |-> table_size, index_size |-> index_size]

\* the sizes get_table_analysis returns: hundredths of a megabyte on SQL
\* Server, MySQL and Oracle, which round to two places, and the exact quotient
\* bytes / 1024.0 / 1024.0, written in pages, on PostgreSQL
TableSizes(backend, st) ==
  CASE backend = "postgres" -> Sizes(st.a, st.b, st.a - st.b)
    [] backend = "mssql" ->
         \* size_info[1] = data_size_kb of total_pages, size_info[2] =
         \* used_size_kb of used_pages
         Sizes(IF st.b # 0 THEN Round2(st.b) ELSE 0,
               IF st.a # 0 THEN Round2(st.a) ELSE 0,
               IF st.b # 0 /\ st.a # 0 THEN Round2(st.b - st.a) ELSE 0)
    [] backend = "mysql" ->
         Sizes(IF st.a + st.b # 0 THEN Round2(st.a + st.b) ELSE 0,
               IF st.a # 0 THEN Round2(st.a) ELSE 0,
               IF st.b # 0 THEN Round2(st.b) ELSE 0)
    [] backend = "oracle" ->
         Sizes(Round2(st.a),
               IF st.a # 0 /\ st.b # 0 THEN Round2(st.a - st.b) ELSE Round2(st.a),
               Round2(st.b))

InitSizes ==
  /\ run = IdleRun /\ chk = IdleChk /\ tck = IdleTck /\ meta = IdleMeta /\ con = IdleCon
  /\ mem = IdleMem
  /\ \E backend \in Backends :
       \E st \in StorageOf(backend) :
         fn = [st |-> "sizes", backend |-> backend, storage |-> st, done |-> FALSE,
               sizes |-> Sizes(0, 0, 0)]

GetTableSizes ==
  /\ fn.st = "sizes" /\ ~fn.done
  /\ fn' = [fn EXCEPT !.done = TRUE, !.sizes = TableSizes(fn.backend, fn.storage)]
  /\ UNCHANGED <<run, chk, tck, meta, con, mem>>

SpecSizes == InitSizes /\ [][GetTableSizes]_vars

\* C28: on every backend get_table_analysis returns index_size >= 0 and
\* table_size <= total_size.
C28_SizesConsistent ==
  fn.st = "sizes" /\ fn.done =>
    /\ fn.sizes.index_size >= 0
    /\ fn.sizes.table_size <= fn.sizes.total_size

\* ---------------------------------------------------------------------------
\* SpecTypes: the numeric type lists of the connectors, of the registry and
\* of the range_check block
\* ---------------------------------------------------------------------------

\* the types for which get_column_details computes the numeric metrics
DetailsNumericTypes(backend) ==
  CASE backend = "postgres" ->
         {"integer", "bigint", "smallint", "numeric", "real", "double precision"}
    [] backend = "mssql" ->
         {"int", "bigint", "smallint", "tinyint", "decimal", "numeric", "float", "double",
          "real", "money", "smallmoney"}
    [] backend = "mysql" ->
         {"int", "bigint", "smallint", "tinyint", "decimal", "numeric", "float", "double"}
    [] backend = "oracle" -> {"number", "float", "integer", "decimal"}

NumericKinds == {"range_check", "positive_value"}

\* the lower-cased type of the column: a type its connector treats as
\* numeric, or one the registry lists for the numeric checks
TypeInputs(backend) == DetailsNumericTypes(backend) \cup available_for("range_check").types

InitTypes ==
  /\ run = IdleRun /\ chk = IdleChk /\ tck = IdleTck /\ meta = IdleMeta /\ con = IdleCon
  /\ mem = IdleMem
  /\ \E backend \in Backends, kind \in NumericKinds :
       \E data_type \in TypeInputs(backend) :
         fn = [st |-> "types", backend |-> backend, kind |-> kind, data_type |-> data_type,
               done |-> FALSE, numeric |-> FALSE, offered |-> FALSE, guard |-> FALSE]

\* the column is analysed by get_column_details, offered its checks by the
\* page (available_for == 'all' or data_type in available_for), and a
\* selected range_check meets the type guard of its block
ClassifyColumn ==
  /\ fn.st = "types" /\ ~fn.done
  /\ fn' = [fn EXCEPT !.done = TRUE,
                      !.numeric = fn.data_type \in DetailsNumericTypes(fn.backend),
                      !.offered = fn.kind \in available_tests(fn.data_type),
                      !.guard = fn.data_type \in RangeDispatchTypes]
  /\ UNCHANGED <<run, chk, tck, meta, con, mem>>

SpecTypes == InitTypes /\ [][ClassifyColumn]_vars

\* C29: a type that the connector's get_column_details treats as numeric is
\* offered range_check and positive_value, and a type for which range_check
\* is offered passes the type guard of the range_check block.
C29_NumericTypesAgree ==
  fn.st = "types" /\ fn.done =>
    /\ fn.numeric => fn.offered
    /\ fn.kind = "range_check" /\ fn.offered => fn.guard

====
